---- MODULE Spec2Model ----
(***************************************************************************)
(* Matching and assignment engine of agente-conciliacion-sat               *)
(* (src/conciliacion/matcher.py, with the retrieval queries of             *)
(* src/erp/remisiones.py and the records of src/erp/models.py).            *)
(*                                                                         *)
(* Amounts are integers (currency units of the ledger).  Sub-scores are    *)
(* kept in hundredths (0..100) and total scores in ten-thousandths         *)
(* (0..10000): score_total = 50*monto + 30*fecha + 20*productos.           *)
(* Percentages are compared by cross-multiplication, so no rounding takes  *)
(* part in a threshold test.                                               *)
(***************************************************************************)
EXTENDS Integers, Sequences, FiniteSets, TLC

VARIABLES
    ledger,             \* SAVRecC rows of serie R: sequence of Remision records
    facturas,           \* the batch handed to conciliar_lote
    remisiones_usadas,  \* ConciliacionMatcher._remisiones_usadas
    pc,                 \* position inside conciliar_lote
    lote,               \* number of the conciliar_lote call on this matcher
    usadas_al_entrar,   \* _remisiones_usadas as found when the call started
    candidatas_por_factura, \* exact candidates of each invoice (phase 1)
    asignaciones,       \* result of _resolver_asignacion_optima (uuid -> column)
    orden,              \* facturas_con_candidatas followed by facturas_sin_candidatas
    resultados,         \* list of ResultadoConciliacion built so far
    solver,             \* what linear_sum_assignment has answered, by cost matrix
    anterior,           \* what the previous conciliar_lote call returned
    calc                \* a single call of a pure scoring/search function

vars == <<ledger, facturas, remisiones_usadas, pc, lote, usadas_al_entrar,
          candidatas_por_factura, asignaciones, orden, resultados, solver,
          anterior, calc>>

-----------------------------------------------------------------------------
(* Bounds of the model *)

NumRemisiones == 3
NumFacturas == 2
MaxLotes == 2
MaxPool == 4

-----------------------------------------------------------------------------
(* Program constants *)

PESO_MONTO == 50
PESO_FECHA == 30
PESO_PRODUCTOS == 20
SCORE_MINIMO_ACEPTABLE == 7000
MAX_REMISIONES_COMBINACION == 10
LIMITE_CANDIDATAS == 15
LIMITE_SEGUNDO_PASE == 30
DIAS_RANGO_SEGUNDO_PASE == 30
tolerancia_decimal == 0
tolerancia_monto_porcentaje == 2
dias_rango_busqueda == 3
umbral_similitud_texto == 80
COSTO_ALTO == 1000000

None == 0

-----------------------------------------------------------------------------
(* Helpers *)

Abs(x) == IF x < 0 THEN -x ELSE x

Max0(x) == IF x < 0 THEN 0 ELSE x

Min(a, b) == IF a < b THEN a ELSE b

RECURSIVE SumaTotales(_)
SumaTotales(rs) ==
    IF rs = <<>> THEN 0 ELSE Head(rs).total + SumaTotales(Tail(rs))

RECURSIVE SumaDetalles(_)
SumaDetalles(rs) ==
    IF rs = <<>> THEN 0 ELSE Len(Head(rs).detalles) + SumaDetalles(Tail(rs))

RECURSIVE Filtrar(_, _)
Filtrar(rs, S) ==
    IF rs = <<>> THEN <<>>
    ELSE IF Head(rs).id_remision \in S
         THEN Filtrar(Tail(rs), S)
         ELSE <<Head(rs)>> \o Filtrar(Tail(rs), S)

Ids(rs) == { rs[i].id_remision : i \in DOMAIN rs }

SeqIds(rs) == [ i \in DOMAIN rs |-> rs[i].id_remision ]

Rango(s) == { s[i] : i \in DOMAIN s }

\* diferencia_porcentaje <= p, with diferencia_porcentaje = diff / total * 100
\* when total > 0 and 100.0 otherwise.
PctLeq(diff, total, p) ==
    IF total > 0 THEN 100 * diff <= p * total ELSE 100 <= p

PctLt(diff, total, p) ==
    IF total > 0 THEN 100 * diff < p * total ELSE 100 < p

\* Comparison of the diferencia_porcentaje of two scores of one invoice.
PctMenor(d1, d2, total) == total > 0 /\ d1 < d2

PctIgual(d1, d2, total) == total > 0 => d1 = d2

\* diferencia_porcentaje in hundredths of a percent (the stored float).
Pct(diff, total) ==
    IF total > 0 THEN (10000 * diff) \div total ELSE 10000

-----------------------------------------------------------------------------
(* Remision.esta_facturada *)

esta_facturada(r) ==
    \/ r.uuid_factura_vinculada # ""
    \/ r.uuid_factura # ""
    \/ r.estatus = "FACTURADA"

-----------------------------------------------------------------------------
(* Line-item similarity.  A description is a set of lower-case words;      *)
(* token_sort_ratio is order-insensitive and is 100 on equal word sets.    *)

token_sort_ratio(a, b) ==
    IF Cardinality(a) + Cardinality(b) = 0 THEN 100
    ELSE (200 * Cardinality(a \cap b)) \div (Cardinality(a) + Cardinality(b))

MejorMatch(concepto, detalles) ==
    IF \E j \in DOMAIN detalles :
          token_sort_ratio(concepto, detalles[j]) >= umbral_similitud_texto
    THEN 1 ELSE 0

RECURSIVE MatchesEncontrados(_, _)
MatchesEncontrados(conceptos, detalles) ==
    IF conceptos = <<>> THEN 0
    ELSE MejorMatch(Head(conceptos), detalles)
         + MatchesEncontrados(Tail(conceptos), detalles)

ScoreProductosNeutro == 50

\* Variant: no neutral score, an empty side counts as no match at all.
calcular_score_productos_sin_neutro(factura, remision) ==
    IF factura.conceptos = <<>> \/ remision.detalles = <<>>
    THEN 0
    ELSE (100 * MatchesEncontrados(factura.conceptos, remision.detalles))
            \div Len(factura.conceptos)

calcular_score_productos(factura, remision) ==
    IF factura.conceptos = <<>> \/ remision.detalles = <<>>
    THEN ScoreProductosNeutro
    ELSE (100 * MatchesEncontrados(factura.conceptos, remision.detalles))
            \div Len(factura.conceptos)

-----------------------------------------------------------------------------
(* _calcular_score: one invoice against one receipt *)

ScoreMontoSimple(diff, total) ==
    IF PctLeq(diff, total, tolerancia_monto_porcentaje) THEN 100
    ELSE IF PctLeq(diff, total, 2 * tolerancia_monto_porcentaje) THEN 70
    ELSE IF PctLeq(diff, total, 10) THEN 50
    ELSE IF total > 0 THEN Max0(100 - (200 * diff) \div total) ELSE 0

\* Variant: the band of 8 to 14 days is worth 0.4.
ScoreFechaTreintavos_banda_baja(dias) ==
    IF dias <= 1 THEN 30
    ELSE IF dias <= 3 THEN 27
    ELSE IF dias <= 7 THEN 21
    ELSE IF dias <= 14 THEN 12
    ELSE Max0(30 - dias)

\* score_fecha in thirtieths, where every value of it is a whole number:
\* 1.0, 0.9, 0.7, 0.5 and max(0, 1 - dias / 30).
ScoreFechaTreintavos(dias) ==
    IF dias <= 1 THEN 30
    ELSE IF dias <= 3 THEN 27
    ELSE IF dias <= 7 THEN 21
    ELSE IF dias <= 14 THEN 15
    ELSE Max0(30 - dias)

\* score_fecha in hundredths (the decaying tail rounded down).
ScoreFechaSimple(dias) == (100 * ScoreFechaTreintavos(dias)) \div 30

ScoreTotal(monto, fecha, productos) ==
    monto * PESO_MONTO + fecha * PESO_FECHA + productos * PESO_PRODUCTOS

calcular_score(factura, remision) ==
    LET diff == Abs(factura.total - remision.total)
        dias == Abs(factura.fecha_emision - remision.fecha_remision)
        sm   == ScoreMontoSimple(diff, factura.total)
        sf   == ScoreFechaSimple(dias)
        sp   == calcular_score_productos(factura, remision)
    IN [ score_total      |-> ScoreTotal(sm, sf, sp),
         score_monto      |-> sm,
         score_fecha      |-> sf,
         score_productos  |-> sp,
         diferencia_monto |-> diff,
         dias_diferencia  |-> dias,
         es_multi_remision |-> FALSE,
         remisiones       |-> <<>>,
         metodo_match     |-> "algoritmo" ]

-----------------------------------------------------------------------------
(* _calcular_score_multi: one invoice against a combination of receipts *)

ScoreMontoMulti(diff, total) ==
    IF PctLeq(diff, total, tolerancia_monto_porcentaje) THEN 100
    ELSE IF PctLeq(diff, total, 2 * tolerancia_monto_porcentaje) THEN 80
    ELSE IF PctLeq(diff, total, 10) THEN 60
    ELSE IF total > 0 THEN Max0(100 - (200 * diff) \div total) ELSE 0

ScoreFechaMulti(max_dias) ==
    IF max_dias <= 3 THEN 100
    ELSE IF max_dias <= 7 THEN 80
    ELSE IF max_dias <= 14 THEN 60
    ELSE Max0(100 - (100 * max_dias) \div 30)

RECURSIVE SumaDias(_, _)
SumaDias(factura, rs) ==
    IF rs = <<>> THEN 0
    ELSE Abs(factura.fecha_emision - Head(rs).fecha_remision)
         + SumaDias(factura, Tail(rs))

MaxDias(factura, rs) ==
    CHOOSE d \in { Abs(factura.fecha_emision - rs[i].fecha_remision) : i \in DOMAIN rs } :
        \A i \in DOMAIN rs : Abs(factura.fecha_emision - rs[i].fecha_remision) <= d

PenalizacionMulti(n) == 200 * (n - 1)

calcular_score_multi(factura, rs) ==
    LET diff == Abs(factura.total - SumaTotales(rs))
        sm   == ScoreMontoMulti(diff, factura.total)
        sf   == ScoreFechaMulti(MaxDias(factura, rs))
        sp   == 100
    IN [ score_total      |-> Max0(ScoreTotal(sm, sf, sp) - PenalizacionMulti(Len(rs))),
         score_monto      |-> sm,
         score_fecha      |-> sf,
         score_productos  |-> sp,
         diferencia_monto |-> diff,
         dias_diferencia  |-> SumaDias(factura, rs) \div Len(rs),
         es_multi_remision |-> TRUE,
         remisiones       |-> SeqIds(rs),
         metodo_match     |-> "algoritmo" ]

-----------------------------------------------------------------------------
(* _buscar_combinacion_remisiones *)

NoScore ==
    [ score_total |-> -1, score_monto |-> 0, score_fecha |-> 0,
      score_productos |-> 0, diferencia_monto |-> -1, dias_diferencia |-> 0,
      es_multi_remision |-> FALSE, remisiones |-> <<>>, metodo_match |-> "" ]

\* itertools.combinations(s, k): the k-element subsequences of s in
\* lexicographic order of their positions.
RECURSIVE combinations(_, _)
combinations(s, k) ==
    IF k = 0 THEN << <<>> >>
    ELSE IF Len(s) < k THEN <<>>
    ELSE LET con == combinations(Tail(s), k - 1)
         IN [ i \in DOMAIN con |-> <<Head(s)>> \o con[i] ]
            \o combinations(Tail(s), k)

\* The combinations in the order the two nested loops visit them:
\* for num_remisiones in range(2, min(len + 1, MAX + 1)): for combo in ...
RECURSIVE Enumeracion(_, _)
Enumeracion(candidatas, num_remisiones) ==
    IF num_remisiones >= Min(Len(candidatas) + 1, MAX_REMISIONES_COMBINACION + 1)
    THEN <<>>
    ELSE combinations(candidatas, num_remisiones)
         \o Enumeracion(candidatas, num_remisiones + 1)

RECURSIVE Elegibles(_, _)
Elegibles(factura, rs) ==
    IF rs = <<>> THEN <<>>
    ELSE IF Head(rs).total <= factura.total /\ ~esta_facturada(Head(rs))
         THEN <<Head(rs)>> \o Elegibles(factura, Tail(rs))
         ELSE Elegibles(factura, Tail(rs))

Candidatas(factura, remisiones, limite_candidatas) ==
    LET c == Elegibles(factura, remisiones)
    IN SubSeq(c, 1, Min(Len(c), limite_candidatas))

\* Variant: the exact combination is remembered but the loops run to the end.
RECURSIVE Explorar_sin_corte(_, _, _, _, _)
Explorar_sin_corte(factura, enum, i, mejor_combinacion, mejor_con_productos_exactos) ==
    IF i > Len(enum)
    THEN [ retorno |-> mejor_combinacion, evaluadas |-> Len(enum) ]
    ELSE
      LET combo == enum[i]
          diferencia == Abs(factura.total - SumaTotales(combo))
          score == calcular_score_multi(factura, combo)
      IN IF diferencia <= tolerancia_decimal
            /\ (mejor_combinacion = NoScore
                \/ score.score_total >= mejor_combinacion.score_total)
         THEN Explorar_sin_corte(factura, enum, i + 1, score,
                                 mejor_con_productos_exactos)
         ELSE Explorar_sin_corte(factura, enum, i + 1, mejor_combinacion,
                                 mejor_con_productos_exactos)

\* The state of the two loops: fin marks that a return statement was reached.
EstadoExplorar(mejor_combinacion, mejor_con_productos_exactos) ==
    [ fin |-> FALSE, retorno |-> NoScore, evaluadas |-> 0,
      mejor_combinacion |-> mejor_combinacion,
      mejor_con_productos_exactos |-> mejor_con_productos_exactos ]

\* Variant: a combination within the percentage tolerance is returned.
Paso_tolerante(factura, combo, i, e) ==
    IF 100 * Abs(factura.total - SumaTotales(combo))
          <= tolerancia_monto_porcentaje * factura.total
    THEN [ e EXCEPT !.fin = TRUE,
                    !.retorno = calcular_score_multi(factura, combo),
                    !.evaluadas = i ]
    ELSE e

\* One pass of the loop body, for combination number i.
Paso(factura, combo, i, e) ==
    LET diferencia == Abs(factura.total - SumaTotales(combo))
    IN IF diferencia <= tolerancia_decimal
       THEN
         LET score == calcular_score_multi(factura, combo)
             productos_exactos == SumaDetalles(combo) = Len(factura.conceptos)
             mejora == /\ productos_exactos
                       /\ \/ e.mejor_con_productos_exactos = NoScore
                          \/ score.score_total > e.mejor_con_productos_exactos.score_total
             mcpe == IF mejora THEN score ELSE e.mejor_con_productos_exactos
             mc == IF e.mejor_combinacion = NoScore THEN score
                   ELSE IF PctMenor(score.diferencia_monto,
                                    e.mejor_combinacion.diferencia_monto, factura.total)
                   THEN score
                   ELSE IF /\ PctIgual(score.diferencia_monto,
                                       e.mejor_combinacion.diferencia_monto, factura.total)
                           /\ score.score_total > e.mejor_combinacion.score_total
                   THEN score
                   ELSE e.mejor_combinacion
         IN IF diferencia = 0
            THEN [ e EXCEPT !.fin = TRUE, !.retorno = score, !.evaluadas = i ]
            ELSE IF mejora /\ 200 * score.diferencia_monto <= factura.total
            THEN [ e EXCEPT !.fin = TRUE, !.retorno = mcpe, !.evaluadas = i ]
            ELSE [ e EXCEPT !.mejor_combinacion = mc,
                            !.mejor_con_productos_exactos = mcpe ]
       ELSE e

\* The passes for combinations desde..hasta in order, stopping at a return.
RECURSIVE Pasos(_, _, _, _, _)
Pasos(factura, enum, desde, hasta, e) ==
    IF e.fin \/ desde > hasta THEN e
    ELSE IF desde = hasta THEN Paso(factura, enum[desde], desde, e)
    ELSE Pasos(factura, enum, (desde + hasta) \div 2 + 1, hasta,
               Pasos(factura, enum, desde, (desde + hasta) \div 2, e))

\* The two loops from combination number i on.  retorno is the value
\* returned, evaluadas the number of combinations visited.
Explorar(factura, enum, i, mejor_combinacion, mejor_con_productos_exactos) ==
    LET e == Pasos(factura, enum, i, Len(enum),
                   EstadoExplorar(mejor_combinacion, mejor_con_productos_exactos))
    IN IF e.fin THEN [ retorno |-> e.retorno, evaluadas |-> e.evaluadas ]
       ELSE [ retorno   |-> IF e.mejor_con_productos_exactos # NoScore
                            THEN e.mejor_con_productos_exactos
                            ELSE e.mejor_combinacion,
              evaluadas |-> Len(enum) ]

BusquedaCombinacion(factura, remisiones, limite_candidatas) ==
    LET candidatas == Candidatas(factura, remisiones, limite_candidatas)
    IN IF Len(Elegibles(factura, remisiones)) < 2
       THEN [ retorno |-> NoScore, evaluadas |-> 0 ]
       ELSE Explorar(factura, Enumeracion(candidatas, 2), 1, NoScore, NoScore)

buscar_combinacion_remisiones(factura, remisiones, limite_candidatas) ==
    BusquedaCombinacion(factura, remisiones, limite_candidatas).retorno

-----------------------------------------------------------------------------
(* ResultadoConciliacion and the two _aplicar_resultado_* methods *)

\* The string ", ".join(prefijo + id for id in ids): two such strings are
\* equal exactly when prefix and id list are (no id holds a comma).
Unir(prefijo, ids) == [ prefijo |-> prefijo, ids |-> ids ]

\* numero_remision = None
SinNumero == Unir("", <<>>)

ResultadoBase(factura) ==
    [ uuid_factura         |-> factura.uuid,
      remision             |-> None,
      numero_remision      |-> SinNumero,
      remisiones           |-> <<>>,
      score_matching       |-> 0,
      diferencia_monto     |-> -1,
      conciliacion_exitosa |-> FALSE,
      es_multi_remision    |-> FALSE,
      metodo_matching      |-> "automatico",
      alertas              |-> {} ]

aplicar_resultado_simple(resultado, remision, score, factura) ==
    [ resultado EXCEPT
        !.remision             = remision.id_remision,
        !.remisiones           = <<remision.id_remision>>,
        !.numero_remision      = Unir("", <<remision.id_remision>>),
        !.score_matching       = score.score_total,
        !.diferencia_monto     = score.diferencia_monto,
        !.es_multi_remision    = FALSE,
        !.conciliacion_exitosa =
            \/ @
            \/ /\ score.score_total >= SCORE_MINIMO_ACEPTABLE
               /\ Abs(score.diferencia_monto) = 0,
        !.alertas = @ \cup
            IF score.score_total >= SCORE_MINIMO_ACEPTABLE
            THEN IF Abs(score.diferencia_monto) = 0 THEN {}
                 ELSE {"DIFERENCIA_MONTO"}
            ELSE {"MATCH_BAJO"} ]

aplicar_resultado_multi(resultado, score, factura) ==
    [ resultado EXCEPT
        !.remisiones           = score.remisiones,
        !.remision             = IF score.remisiones # <<>>
                                 THEN score.remisiones[1] ELSE None,
        !.numero_remision      = Unir("", score.remisiones),
        !.score_matching       = score.score_total,
        !.diferencia_monto     = score.diferencia_monto,
        !.es_multi_remision    = TRUE,
        !.metodo_matching      = "multi_remision",
        !.conciliacion_exitosa =
            \/ @
            \/ /\ score.score_total >= SCORE_MINIMO_ACEPTABLE
               /\ Abs(score.diferencia_monto) = 0,
        !.alertas = @ \cup {"MULTI_REMISION"} \cup
            IF score.score_total >= SCORE_MINIMO_ACEPTABLE
            THEN IF Abs(score.diferencia_monto) = 0 THEN {}
                 ELSE {"DIFERENCIA_MONTO"}
            ELSE {"MATCH_BAJO"} ]

-----------------------------------------------------------------------------
(* Records *)

Descripciones == { {"res"}, {"res", "molida"}, {"pollo"} }

Remision(id, total, fecha, rfc, uuid, ref, detalles) ==
    [ id_remision            |-> id,
      fecha_remision         |-> fecha,
      rfc_proveedor          |-> rfc,
      total                  |-> total,
      estatus                |-> "PENDIENTE",
      detalles               |-> detalles,
      factura_proveedor      |-> ref,
      uuid_factura           |-> uuid,
      uuid_factura_vinculada |-> "" ]

NoPdf == [ exito |-> FALSE, remisiones_encontradas |-> <<>>, orden_compra |-> "" ]

Factura(uuid, total, fecha, rfc, conceptos, indicado, pdf) ==
    [ uuid                     |-> uuid,
      rfc_emisor               |-> rfc,
      fecha_emision            |-> fecha,
      total                    |-> total,
      conceptos                |-> conceptos,
      numero_remision_indicado |-> indicado,
      pdf                      |-> pdf ]

-----------------------------------------------------------------------------
(* RemisionesRepository: the three retrieval queries over the ledger.      *)
(* Rows whose Estatus is 'Consolidada' are excluded by every query and are *)
(* not kept in ledger.  Rows that tie in the ORDER BY come in ledger order. *)

\* The ledger rows whose position is in I, in ledger order.
RECURSIVE Filas(_, _)
Filas(I, i) ==
    IF i > Len(ledger) THEN <<>>
    ELSE IF i \in I THEN <<ledger[i]>> \o Filas(I, i + 1)
    ELSE Filas(I, i + 1)

\* ORDER BY diferencia_monto ASC, dias_diferencia ASC
Antes(a, b, fecha_factura, monto_total) ==
    LET da == Abs(a.total - monto_total)
        db == Abs(b.total - monto_total)
        fa == Abs(a.fecha_remision - fecha_factura)
        fb == Abs(b.fecha_remision - fecha_factura)
    IN \/ da < db
       \/ da = db /\ fa < fb
       \/ da = db /\ fa = fb /\ a.id_remision < b.id_remision

RECURSIVE Ordenar(_, _, _)
Ordenar(S, fecha_factura, monto_total) ==
    IF S = {} THEN <<>>
    ELSE LET m == CHOOSE a \in S :
                    \A b \in S \ {a} : Antes(a, b, fecha_factura, monto_total)
         IN <<m>> \o Ordenar(S \ {m}, fecha_factura, monto_total)

buscar_para_conciliacion(rfc_proveedor, fecha_factura, monto_total, dias_rango) ==
    LET dias == IF dias_rango # 0 THEN dias_rango ELSE dias_rango_busqueda
    IN Ordenar({ ledger[i] : i \in { j \in DOMAIN ledger :
                    /\ ledger[j].rfc_proveedor = rfc_proveedor
                    /\ ledger[j].fecha_remision >= fecha_factura - dias
                    /\ ledger[j].fecha_remision <= fecha_factura + dias } },
               fecha_factura, monto_total)

\* rfc_proveedor = "" stands for the call without the optional filter.
buscar_por_numero(numero_remision, rfc_proveedor) ==
    Filas({ i \in DOMAIN ledger :
              /\ ledger[i].id_remision = numero_remision
              /\ (rfc_proveedor # "" => ledger[i].rfc_proveedor = rfc_proveedor) }, 1)

buscar_por_orden_compra(orden_compra, rfc_proveedor) ==
    Filas({ i \in DOMAIN ledger :
              /\ ledger[i].factura_proveedor = orden_compra
              /\ (rfc_proveedor # "" => ledger[i].rfc_proveedor = rfc_proveedor) }, 1)

-----------------------------------------------------------------------------
(* The filter every stage applies to what it retrieved *)

\* Variant: the retrieved receipts are used as they come.
SinUsadas_sin_filtro(rs) == rs

SinUsadas(rs) ==
    IF remisiones_usadas # {} THEN Filtrar(rs, remisiones_usadas) ELSE rs

-----------------------------------------------------------------------------
(* _buscar_por_pdf.  factura.pdf stands for what buscar_pdf_para_xml and   *)
(* PDFRemisionExtractor.extraer_remisiones give for factura.archivo_xml.   *)

BuscarReferencia(ref, rfc) ==
    LET con_rfc == buscar_por_orden_compra(ref, rfc)
    IN IF con_rfc # <<>> THEN con_rfc ELSE buscar_por_orden_compra(ref, "")

RECURSIVE BuscarReferencias(_, _)
BuscarReferencias(refs, rfc) ==
    IF refs = <<>> THEN <<>>
    ELSE BuscarReferencia(Head(refs), rfc) \o BuscarReferencias(Tail(refs), rfc)

EncontradasPdf(factura) ==
    LET por_numero == BuscarReferencias(factura.pdf.remisiones_encontradas,
                                        factura.rfc_emisor)
    IN IF por_numero = <<>> /\ factura.pdf.orden_compra # ""
       THEN BuscarReferencia(factura.pdf.orden_compra, factura.rfc_emisor)
       ELSE por_numero

ScorePdf(diferencia, total) ==
    IF total = 0 \/ 100 * diferencia < total THEN 10000
    ELSE 10000 - (10000 * diferencia) \div total

\* The stage's return value: hay = FALSE stands for None.
buscar_por_pdf(factura, resultado) ==
    LET encontradas == SinUsadas(EncontradasPdf(factura))
        total_remisiones == SumaTotales(encontradas)
        diferencia == Abs(factura.total - total_remisiones)
        dentro == IF factura.total = 0 THEN 0 < tolerancia_monto_porcentaje
                  ELSE 100 * diferencia < tolerancia_monto_porcentaje * factura.total
    IN IF \/ ~factura.pdf.exito
          \/ (factura.pdf.remisiones_encontradas = <<>> /\ factura.pdf.orden_compra = "")
          \/ encontradas = <<>>
       THEN [ hay |-> FALSE, resultado |-> resultado ]
       ELSE [ hay |-> TRUE,
              resultado |->
                [ resultado EXCEPT
                    !.remision = IF Len(encontradas) = 1
                                 THEN encontradas[1].id_remision ELSE @,
                    !.numero_remision = IF Len(encontradas) = 1
                                        THEN Unir("", SeqIds(encontradas))
                                        ELSE Unir("R-", SeqIds(encontradas)),
                    !.remisiones = SeqIds(encontradas),
                    !.diferencia_monto = diferencia,
                    !.score_matching = ScorePdf(diferencia, factura.total),
                    !.metodo_matching = "pdf",
                    !.conciliacion_exitosa = @ \/ dentro,
                    !.es_multi_remision = IF dentro THEN Len(encontradas) > 1 ELSE @,
                    !.alertas = @ \cup {"MATCH_PDF"} \cup
                                IF dentro THEN {} ELSE {"DIFERENCIA_MONTO"} ] ]

-----------------------------------------------------------------------------
(* _buscar_por_numero_directo *)

\* unica: the query gave one receipt (lines 380-408); otherwise the first
\* receipt of the issuer is taken and no DIFERENCIA_MONTO alert is added.
ResultadoDirecto(resultado, remision, score, factura, unica) ==
    LET dentro == PctLeq(score.diferencia_monto, factura.total,
                         tolerancia_monto_porcentaje)
    IN [ resultado EXCEPT
           !.remision = remision.id_remision,
           !.remisiones = <<remision.id_remision>>,
           !.numero_remision = Unir("", <<remision.id_remision>>),
           !.score_matching = score.score_total,
           !.diferencia_monto = score.diferencia_monto,
           !.metodo_matching = "numero_directo",
           !.conciliacion_exitosa = @ \/ dentro,
           !.alertas = @ \cup {"MATCH_DIRECTO"}
                         \cup (IF dentro \/ ~unica THEN {} ELSE {"DIFERENCIA_MONTO"}) ]

\* Variant: of several receipts the first is taken, whatever its supplier.
buscar_por_numero_directo_primera(factura, resultado) ==
    LET numero == factura.numero_remision_indicado
        con_rfc == buscar_por_numero(numero, factura.rfc_emisor)
        halladas == IF con_rfc # <<>> THEN con_rfc ELSE buscar_por_numero(numero, "")
        remisiones == SinUsadas(halladas)
    IN IF remisiones = <<>>
       THEN [ hay |-> FALSE, resultado |-> resultado ]
       ELSE [ hay |-> TRUE,
              resultado |-> ResultadoDirecto(resultado, remisiones[1],
                               calcular_score(factura, remisiones[1]), factura,
                               Len(remisiones) = 1) ]

buscar_por_numero_directo(factura, resultado) ==
    LET numero == factura.numero_remision_indicado
        con_rfc == buscar_por_numero(numero, factura.rfc_emisor)
        halladas == IF con_rfc # <<>> THEN con_rfc ELSE buscar_por_numero(numero, "")
        remisiones == SinUsadas(halladas)
        del_emisor == { i \in DOMAIN remisiones :
                          remisiones[i].rfc_proveedor = factura.rfc_emisor }
    IN IF remisiones = <<>>
       THEN [ hay |-> FALSE, resultado |-> resultado ]
       ELSE IF Len(remisiones) = 1
       THEN [ hay |-> TRUE,
              resultado |-> ResultadoDirecto(resultado, remisiones[1],
                               calcular_score(factura, remisiones[1]), factura, TRUE) ]
       ELSE IF del_emisor # {}
       THEN LET i == CHOOSE k \in del_emisor : \A m \in del_emisor : k <= m
            IN [ hay |-> TRUE,
                 resultado |-> ResultadoDirecto(resultado, remisiones[i],
                                  calcular_score(factura, remisiones[i]), factura, FALSE) ]
       ELSE [ hay |-> FALSE, resultado |-> resultado ]

-----------------------------------------------------------------------------
(* conciliar_factura *)

\* mejor_match_simple: the first receipt of the list with the highest score.
MejorMatchSimple(factura, remisiones) ==
    CHOOSE i \in DOMAIN remisiones :
        /\ \A j \in DOMAIN remisiones :
              calcular_score(factura, remisiones[j]).score_total
                 <= calcular_score(factura, remisiones[i]).score_total
        /\ \A j \in 1..(i - 1) :
              calcular_score(factura, remisiones[j]).score_total
                 < calcular_score(factura, remisiones[i]).score_total

\* The choice between the first search and the second pass (lines 141-169).
ElegirPase(primero, segundo_pase, remisiones, remisiones_ampliadas) ==
    IF primero = NoScore \/ primero.diferencia_monto # 0
    THEN IF /\ Len(remisiones_ampliadas) > Len(remisiones)
            /\ segundo_pase # NoScore
            /\ (primero = NoScore \/ segundo_pase.score_total > primero.score_total)
         THEN segundo_pase
         ELSE primero
    ELSE primero

SegundoPase(factura, remisiones_ampliadas) ==
    buscar_combinacion_remisiones(factura, remisiones_ampliadas, LIMITE_SEGUNDO_PASE)

Ampliadas(factura) ==
    SinUsadas(buscar_para_conciliacion(factura.rfc_emisor, factura.fecha_emision,
                                       factura.total, DIAS_RANGO_SEGUNDO_PASE))

MejorMatchMulti(factura, remisiones) ==
    ElegirPase(buscar_combinacion_remisiones(factura, remisiones, LIMITE_CANDIDATAS),
               SegundoPase(factura, Ampliadas(factura)),
               remisiones, Ampliadas(factura))

\* The choice between the best single receipt and the best combination
\* (lines 171-188).
\* Variant: the combination is used only on a strictly higher score, or on
\* an equal score with a smaller difference.
ElegirMatch_por_score(resultado, factura, simple, score_simple, multi) ==
    IF /\ multi # NoScore
       /\ \/ multi.score_total > score_simple.score_total
          \/ /\ multi.score_total = score_simple.score_total
             /\ PctMenor(multi.diferencia_monto, score_simple.diferencia_monto,
                         factura.total)
    THEN aplicar_resultado_multi(resultado, multi, factura)
    ELSE aplicar_resultado_simple(resultado, simple, score_simple, factura)

ElegirMatch(resultado, factura, simple, score_simple, multi) ==
    IF /\ multi # NoScore
       /\ \/ multi.score_total > score_simple.score_total
          \/ PctMenor(multi.diferencia_monto, score_simple.diferencia_monto,
                      factura.total)
    THEN aplicar_resultado_multi(resultado, multi, factura)
    ELSE aplicar_resultado_simple(resultado, simple, score_simple, factura)

ElegirSimple(resultado, factura, simple, multi) ==
    ElegirMatch(resultado, factura, simple, calcular_score(factura, simple), multi)

HeuristicaSobre(factura, resultado, remisiones) ==
    IF remisiones = <<>>
    THEN [ resultado EXCEPT !.alertas = @ \cup {"SIN_REMISION"} ]
    ELSE ElegirSimple(resultado, factura,
                      remisiones[MejorMatchSimple(factura, remisiones)],
                      MejorMatchMulti(factura, remisiones))

Heuristica(factura, resultado) ==
    HeuristicaSobre(factura, resultado,
        SinUsadas(buscar_para_conciliacion(factura.rfc_emisor, factura.fecha_emision,
                                           factura.total, dias_rango_busqueda)))

conciliar_factura(factura) ==
    LET resultado == ResultadoBase(factura)
        resultado_pdf == buscar_por_pdf(factura, resultado)
        resultado_directo == buscar_por_numero_directo(factura, resultado)
    IN IF resultado_pdf.hay THEN resultado_pdf.resultado
       ELSE IF factura.numero_remision_indicado # None /\ resultado_directo.hay
       THEN resultado_directo.resultado
       ELSE Heuristica(factura, resultado)

-----------------------------------------------------------------------------
(* conciliar_lote, phase 1: the exact candidates of every invoice *)

NoCandidata == [ multi |-> FALSE, ids |-> <<>>, score |-> NoScore ]

\* Variant: the candidates are not filtered by amount.
RECURSIVE CandidatasSimples_sin_filtro(_, _)
CandidatasSimples_sin_filtro(factura, remisiones) ==
    IF remisiones = <<>> THEN <<>>
    ELSE << [ multi |-> FALSE,
              ids   |-> <<Head(remisiones).id_remision>>,
              score |-> calcular_score(factura, Head(remisiones)) ] >>
         \o CandidatasSimples_sin_filtro(factura, Tail(remisiones))

RECURSIVE CandidatasSimples(_, _)
CandidatasSimples(factura, remisiones) ==
    IF remisiones = <<>> THEN <<>>
    ELSE LET score == calcular_score(factura, Head(remisiones))
         IN (IF score.diferencia_monto = 0
             THEN << [ multi |-> FALSE,
                       ids   |-> <<Head(remisiones).id_remision>>,
                       score |-> score ] >>
             ELSE <<>>)
            \o CandidatasSimples(factura, Tail(remisiones))

CandidatasExactas(factura) ==
    LET remisiones == buscar_para_conciliacion(factura.rfc_emisor, factura.fecha_emision,
                                               factura.total, dias_rango_busqueda)
        match_multi == buscar_combinacion_remisiones(factura, remisiones,
                                                     LIMITE_CANDIDATAS)
    IN IF remisiones = <<>> THEN <<>>
       ELSE CandidatasSimples(factura, remisiones)
            \o (IF match_multi # NoScore /\ match_multi.diferencia_monto = 0
                THEN << [ multi |-> TRUE, ids |-> match_multi.remisiones,
                          score |-> match_multi ] >>
                ELSE <<>>)

RECURSIVE Posiciones(_, _)
Posiciones(i, con) ==
    IF i > Len(facturas) THEN <<>>
    ELSE (IF (candidatas_por_factura[i] # <<>>) = con THEN <<i>> ELSE <<>>)
         \o Posiciones(i + 1, con)

facturas_con_candidatas == Posiciones(1, TRUE)

\* Variant: the invoices without exact candidates are left out.
facturas_sin_candidatas_omitidas == <<>>

facturas_sin_candidatas == Posiciones(1, FALSE)

-----------------------------------------------------------------------------
(* _resolver_asignacion_optima *)

\* rem_id of a candidate: the receipt id, or "MULTI_" and the sorted member ids.
RemId(c) == [ multi |-> c.multi, ids |-> Rango(c.ids) ]

\* columnas: the distinct candidates in the order the invoices list them.
RECURSIVE Columnas(_, _, _, _)
Columnas(filas, f, k, vistas) ==
    IF f > Len(filas) THEN <<>>
    ELSE LET cs == candidatas_por_factura[filas[f]]
         IN IF k > Len(cs) THEN Columnas(filas, f + 1, 1, vistas)
            ELSE IF RemId(cs[k]) \in vistas THEN Columnas(filas, f, k + 1, vistas)
            ELSE <<cs[k]>> \o Columnas(filas, f, k + 1, vistas \cup {RemId(cs[k])})

\* The candidate of invoice position p that has the rem_id of column col.
CandidataDe(p, col) ==
    LET cs == candidatas_por_factura[p]
        I == { k \in DOMAIN cs : RemId(cs[k]) = RemId(col) }
    IN IF I = {} THEN NoCandidata ELSE cs[CHOOSE k \in I : \A m \in I : k <= m]

\* matriz_costos[f_idx, c_idx] in ten-thousandths: -score + 0.001 * dias, or
\* COSTO_ALTO.  alto marks the cells left at COSTO_ALTO, which exceeds in
\* absolute value any sum of the other cells.
Costo(p, col) ==
    LET c == CandidataDe(p, col)
    IN IF c = NoCandidata THEN [ alto |-> 1, costo |-> 0 ]
       ELSE [ alto |-> 0,
              costo |-> 10 * c.score.dias_diferencia - c.score.score_total ]

RECURSIVE CostoTotal(_, _, _, _)
CostoTotal(filas, columnas, sol, f) ==
    IF f > Len(filas) THEN [ alto |-> 0, costo |-> 0 ]
    ELSE LET resto == CostoTotal(filas, columnas, sol, f + 1)
             c == IF sol[f] = 0 THEN [ alto |-> 0, costo |-> 0 ]
                  ELSE Costo(filas[f], columnas[sol[f]])
         IN [ alto |-> c.alto + resto.alto, costo |-> c.costo + resto.costo ]

CostoMenorIgual(a, b) ==
    \/ a.alto < b.alto
    \/ a.alto = b.alto /\ a.costo <= b.costo

\* The complete assignments of an n x m matrix: min(n, m) rows get pairwise
\* different columns (sol[f] = 0: row f gets none).
Completas(n, m) ==
    { sol \in [ 1..n -> 0..m ] :
        /\ \A f, g \in 1..n : (f # g /\ sol[f] # 0) => sol[f] # sol[g]
        /\ Cardinality({ f \in 1..n : sol[f] # 0 }) = Min(n, m) }

\* Variant: every row takes its own cheapest column, whatever the other rows take.
linear_sum_assignment_voraz(filas, columnas) ==
    { sol \in [ 1..Len(filas) -> 1..Len(columnas) ] :
        \A f \in 1..Len(filas) : \A c \in 1..Len(columnas) :
            \/ CostoMenorIgual(Costo(filas[f], columnas[sol[f]]),
                               Costo(filas[f], columnas[c])) /\ sol[f] <= c
            \/ ~CostoMenorIgual(Costo(filas[f], columnas[c]),
                                Costo(filas[f], columnas[sol[f]])) }

\* scipy.optimize.linear_sum_assignment: the complete assignments of minimal
\* total cost.  Which of several minimal ones is returned is not specified.
linear_sum_assignment(filas, columnas) ==
    LET todas == Completas(Len(filas), Len(columnas))
    IN { sol \in todas :
           \A otra \in todas :
              CostoMenorIgual(CostoTotal(filas, columnas, sol, 1),
                              CostoTotal(filas, columnas, otra, 1)) }

NoAsignacion == [ asignada |-> FALSE, multi |-> FALSE, ids |-> <<>>, score |-> NoScore ]

\* Variant: every solver assignment of a real cost is accepted.
RECURSIVE ConstruirAsignaciones_sin_solape(_, _, _, _, _, _)
ConstruirAsignaciones_sin_solape(filas, columnas, sol, f, usadas_en_asignacion, asig) ==
    IF f > Len(filas) THEN asig
    ELSE IF sol[f] = 0 \/ Costo(filas[f], columnas[sol[f]]).alto = 1
    THEN ConstruirAsignaciones_sin_solape(filas, columnas, sol, f + 1,
                                          usadas_en_asignacion, asig)
    ELSE ConstruirAsignaciones_sin_solape(filas, columnas, sol, f + 1,
            usadas_en_asignacion,
            [ asig EXCEPT ![filas[f]] =
                [ asignada |-> TRUE, multi |-> columnas[sol[f]].multi,
                  ids |-> columnas[sol[f]].ids,
                  score |-> CandidataDe(filas[f], columnas[sol[f]]).score ] ])

\* The loop over zip(filas_asignadas, cols_asignadas), rows ascending.
RECURSIVE ConstruirAsignaciones(_, _, _, _, _, _)
ConstruirAsignaciones(filas, columnas, sol, f, usadas_en_asignacion, asig) ==
    IF f > Len(filas) THEN asig
    ELSE IF sol[f] = 0 \/ Costo(filas[f], columnas[sol[f]]).alto = 1
    THEN ConstruirAsignaciones(filas, columnas, sol, f + 1, usadas_en_asignacion, asig)
    ELSE LET col == columnas[sol[f]]
             propia == CandidataDe(filas[f], col)
         IN IF Rango(col.ids) \cap usadas_en_asignacion # {}
            THEN ConstruirAsignaciones(filas, columnas, sol, f + 1,
                                       usadas_en_asignacion, asig)
            ELSE ConstruirAsignaciones(filas, columnas, sol, f + 1,
                    usadas_en_asignacion \cup Rango(col.ids),
                    [ asig EXCEPT ![filas[f]] =
                        [ asignada |-> TRUE, multi |-> col.multi, ids |-> col.ids,
                          score |-> propia.score ] ])

SinAsignaciones == [ p \in DOMAIN facturas |-> NoAsignacion ]

\* matriz_costos as handed to the solver.
MatrizCostos(filas, columnas) ==
    [ f \in DOMAIN filas |-> [ c \in DOMAIN columnas |-> Costo(filas[f], columnas[c]) ] ]

\* Variant: the solver answers a matrix it has seen before with any optimum.
Soluciones_sin_memoria(filas, columnas) == linear_sum_assignment(filas, columnas)

\* What the call of linear_sum_assignment may return: the solver is a
\* function of its matrix, so a matrix seen before gets the answer given then.
Soluciones(filas, columnas) ==
    IF \E m \in solver : m.matriz = MatrizCostos(filas, columnas)
    THEN { m.sol : m \in { n \in solver : n.matriz = MatrizCostos(filas, columnas) } }
    ELSE linear_sum_assignment(filas, columnas)

\* The solver calls made so far, after _resolver_asignacion_optima(filas)
\* got sol from the solver.
SolverTras(filas, sol) ==
    LET columnas == Columnas(filas, 1, 1, {})
    IN IF filas = <<>> \/ columnas = <<>> THEN solver
       ELSE solver \cup { [ matriz |-> MatrizCostos(filas, columnas), sol |-> sol ] }

\* The answers the solver may give inside _resolver_asignacion_optima(filas);
\* <<>> when the method returns before calling it.
RespuestasSolver(filas) ==
    LET columnas == Columnas(filas, 1, 1, {})
    IN IF filas = <<>> \/ columnas = <<>> THEN { <<>> }
       ELSE Soluciones(filas, columnas)

\* The return value of _resolver_asignacion_optima when the solver answers sol.
resolver_asignacion_optima(filas, sol) ==
    LET columnas == Columnas(filas, 1, 1, {})
    IN IF filas = <<>> \/ columnas = <<>> THEN SinAsignaciones
       ELSE ConstruirAsignaciones(filas, columnas, sol, 1, {}, SinAsignaciones)

-----------------------------------------------------------------------------
(* conciliar_lote *)

SinLoteAnterior == [ lote |-> 0, resultados |-> <<>>, asignaciones |-> <<>> ]

\* Variant: an invoice left without assignment gets an empty result.
ElegirFallback_sin_resultado(factura, resultado_fallback) ==
    [ ResultadoBase(factura) EXCEPT !.alertas = @ \cup {"SIN_REMISION_DISPONIBLE"} ]

\* Variant: the registry is kept from the previous call.
UsadasAlIniciar_sin_limpiar == remisiones_usadas

\* self._remisiones_usadas.clear()
UsadasAlIniciar == {}

IdsAsignadas(asig) ==
    UNION { Rango(asig[p].ids) : p \in DOMAIN asig }

ResultadoOptimo(factura, a) ==
    IF a.multi
    THEN aplicar_resultado_multi(ResultadoBase(factura), a.score, factura)
    ELSE [ ResultadoBase(factura) EXCEPT
             !.remision = a.ids[1],
             !.remisiones = a.ids,
             !.numero_remision = Unir("", <<a.ids[1]>>),
             !.score_matching = a.score.score_total,
             !.diferencia_monto = a.score.diferencia_monto,
             !.es_multi_remision = FALSE,
             !.conciliacion_exitosa = TRUE ]

\* What is appended for an invoice with candidates and no assignment.
ElegirFallback(factura, resultado_fallback) ==
    IF resultado_fallback.conciliacion_exitosa THEN resultado_fallback
    ELSE IF resultado_fallback.remision # None THEN resultado_fallback
    ELSE [ ResultadoBase(factura) EXCEPT
             !.alertas = @ \cup {"SIN_REMISION_DISPONIBLE"} ]

ResultadoFallback(factura) == ElegirFallback(factura, conciliar_factura(factura))

\* conciliar_lote up to the end of phase 1.
LoteFase1 ==
    /\ pc = "reposo"
    /\ lote < MaxLotes
    /\ lote' = lote + 1
    /\ usadas_al_entrar' = remisiones_usadas
    /\ remisiones_usadas' = UsadasAlIniciar
    /\ candidatas_por_factura' =
           [ p \in DOMAIN facturas |-> CandidatasExactas(facturas[p]) ]
    /\ asignaciones' = <<>>
    /\ orden' = <<>>
    /\ resultados' = <<>>
    /\ calc' = [ op |-> "inicio" ]
    /\ pc' = "fase2"
    /\ anterior' = [ lote |-> lote, resultados |-> resultados,
                    asignaciones |-> asignaciones ]
    /\ UNCHANGED <<ledger, facturas, solver>>

\* Phase 2: the optimal assignment and the registration of its receipts.
LoteFase2 ==
    /\ pc = "fase2"
    /\ \E sol \in RespuestasSolver(facturas_con_candidatas) :
         /\ asignaciones' = resolver_asignacion_optima(facturas_con_candidatas, sol)
         /\ remisiones_usadas' = remisiones_usadas \cup
                IdsAsignadas(resolver_asignacion_optima(facturas_con_candidatas, sol))
         /\ solver' = SolverTras(facturas_con_candidatas, sol)
    /\ orden' = facturas_con_candidatas \o facturas_sin_candidatas
    /\ pc' = "fase3"
    /\ UNCHANGED <<ledger, facturas, lote, usadas_al_entrar, candidatas_por_factura,
                   resultados, calc,
                   anterior>>

\* Phase 2 when linear_sum_assignment raises: the except branch returns {}
\* and nothing is registered.
LoteFase2Falla ==
    /\ pc = "fase2"
    /\ facturas_con_candidatas # <<>>
    /\ Columnas(facturas_con_candidatas, 1, 1, {}) # <<>>
    /\ asignaciones' = SinAsignaciones
    /\ orden' = facturas_con_candidatas \o facturas_sin_candidatas
    /\ pc' = "fase3"
    /\ UNCHANGED <<ledger, facturas, remisiones_usadas, lote, usadas_al_entrar,
                   candidatas_por_factura, resultados, calc, solver, anterior>>

\* The result appended for the invoice at position p (lines 813-861).
ResultadoDe(p) ==
    IF candidatas_por_factura[p] = <<>> THEN conciliar_factura(facturas[p])
    ELSE IF asignaciones[p].asignada
    THEN ResultadoOptimo(facturas[p], asignaciones[p])
    ELSE ResultadoFallback(facturas[p])

\* Phase 3, one invoice: facturas_con_candidatas first, then the others.
LoteAplicar ==
    /\ pc = "fase3"
    /\ Len(resultados) < Len(orden)
    /\ resultados' = Append(resultados, ResultadoDe(orden[Len(resultados) + 1]))
    /\ UNCHANGED <<ledger, facturas, remisiones_usadas, pc, lote, usadas_al_entrar,
                   candidatas_por_factura, asignaciones, orden, calc,
                   solver, anterior>>

LoteFin ==
    /\ pc = "fase3"
    /\ Len(resultados) = Len(orden)
    /\ pc' = "reposo"
    /\ UNCHANGED <<ledger, facturas, remisiones_usadas, lote, usadas_al_entrar,
                   candidatas_por_factura, asignaciones, orden, resultados, calc,
                   solver, anterior>>

\* detectar_remisiones_duplicadas: the loop from result number i on, with the
\* dictionary remisiones_usadas of the method as the set of keys seen.
RECURSIVE DetectarDesde(_, _, _)
DetectarDesde(rs, i, vistas) ==
    IF i > Len(rs) THEN <<>>
    ELSE IF rs[i].numero_remision = SinNumero
    THEN DetectarDesde(rs, i + 1, vistas)
    ELSE IF rs[i].numero_remision \in vistas
    THEN << [ alerta |-> "REMISION_DUPLICADA",
              numero_remision |-> rs[i].numero_remision,
              uuid_factura |-> rs[i].uuid_factura ] >>
         \o DetectarDesde(rs, i + 1, vistas)
    ELSE DetectarDesde(rs, i + 1, vistas \cup { rs[i].numero_remision })

detectar_remisiones_duplicadas(rs) == DetectarDesde(rs, 1, {})

\* The audit of the results a conciliar_lote call returned.
DetectarDuplicadas ==
    /\ pc = "reposo"
    /\ lote > 0
    /\ calc.op # "duplicadas"
    /\ calc' = [ op         |-> "duplicadas",
                 resultados |-> resultados,
                 alertas    |-> detectar_remisiones_duplicadas(resultados) ]
    /\ UNCHANGED <<ledger, facturas, remisiones_usadas, pc, lote, usadas_al_entrar,
                   candidatas_por_factura, asignaciones, orden, resultados,
                   solver, anterior>>

\* A single conciliar_factura call on the same matcher, outside any batch.
ConciliarFactura ==
    /\ pc = "reposo"
    /\ \E p \in DOMAIN facturas :
         calc' = [ op        |-> "factura",
                   factura   |-> facturas[p],
                   resultado |-> conciliar_factura(facturas[p]) ]
    /\ UNCHANGED <<ledger, facturas, remisiones_usadas, pc, lote, usadas_al_entrar,
                   candidatas_por_factura, asignaciones, orden, resultados,
                   solver, anterior>>

-----------------------------------------------------------------------------
(* The ledgers and batches the matcher is run on *)

PerfilesRemision ==
    { [ total |-> 100, fecha |-> 0,   uuid |-> "",  ref |-> "",   detalles |-> <<{"res"}>> ],
      [ total |-> 100, fecha |-> 0,   uuid |-> "U", ref |-> "",   detalles |-> <<{"res"}>> ],
      [ total |-> 100, fecha |-> -40, uuid |-> "",  ref |-> "",   detalles |-> <<>> ],
      [ total |-> 100, fecha |-> -1,  uuid |-> "",  ref |-> "P1", detalles |-> <<{"res"}>> ],
      [ total |-> 99,  fecha |-> 0,   uuid |-> "",  ref |-> "P1", detalles |-> <<{"res"}>> ],
      [ total |-> 70,  fecha |-> 0,   uuid |-> "",  ref |-> "",   detalles |-> <<{"res"}>> ],
      [ total |-> 30,  fecha |-> -10, uuid |-> "",  ref |-> "",   detalles |-> <<{"res"}>> ],
      [ total |-> 30,  fecha |-> -2,  uuid |-> "",  ref |-> "",   detalles |-> <<{"res"}>> ] }

\* A ledger lists its receipts by id; equal ledgers up to the naming of the
\* receipts are taken once.
MenorIgualPerfil(p, q) ==
    \/ p.total > q.total
    \/ p.total = q.total /\ p.fecha > q.fecha
    \/ p.total = q.total /\ p.fecha = q.fecha /\ p.uuid = "" /\ q.uuid # ""
    \/ p.total = q.total /\ p.fecha = q.fecha /\ p.uuid = q.uuid /\ p.ref = "" /\ q.ref # ""
    \/ p = q

\* The receipts of the profiles ps, numbered by position, all of supplier "A".
Numerar(ps) ==
    [ i \in DOMAIN ps |->
        Remision(i, ps[i].total, ps[i].fecha, "A", ps[i].uuid, ps[i].ref, ps[i].detalles) ]

Ledgers ==
    { Numerar(ps) :
        ps \in { qs \in [ 1..NumRemisiones -> PerfilesRemision ] :
                   \A i \in 1..(NumRemisiones - 1) : MenorIgualPerfil(qs[i], qs[i + 1]) } }

PdfP1 == [ exito |-> TRUE, remisiones_encontradas |-> <<"P1">>, orden_compra |-> "" ]

PerfilesFactura ==
    { [ total |-> 100, fecha |-> 0,   indicado |-> None, pdf |-> NoPdf ],
      [ total |-> 200, fecha |-> 0,   indicado |-> None, pdf |-> NoPdf ],
      [ total |-> 30,  fecha |-> -10, indicado |-> None, pdf |-> NoPdf ],
      [ total |-> 200, fecha |-> 0,   indicado |-> None, pdf |-> PdfP1 ],
      [ total |-> 100, fecha |-> 0,   indicado |-> None, pdf |-> PdfP1 ] }
    \cup { [ total |-> 100, fecha |-> 0, indicado |-> n, pdf |-> NoPdf ] :
             n \in 1..NumRemisiones }

Lotes ==
    { [ i \in 1..NumFacturas |->
          Factura(i, ps[i].total, ps[i].fecha, "A", <<{"res"}>>, ps[i].indicado, ps[i].pdf) ] :
        ps \in [ 1..NumFacturas -> PerfilesFactura ] }

Init ==
    /\ ledger \in Ledgers
    /\ facturas \in Lotes
    /\ remisiones_usadas = {}
    /\ pc = "reposo"
    /\ lote = 0
    /\ usadas_al_entrar = {}
    /\ candidatas_por_factura = <<>>
    /\ asignaciones = <<>>
    /\ orden = <<>>
    /\ resultados = <<>>
    /\ solver = {}
    /\ anterior = SinLoteAnterior
    /\ calc = [ op |-> "inicio" ]

Next ==
    \/ LoteFase1 \/ LoteFase2 \/ LoteAplicar \/ LoteFin
    \/ ConciliarFactura \/ DetectarDuplicadas

Spec == Init /\ [][Next]_vars

\* The same matcher with a solver that may raise: SpecSolverFalla
NextSolverFalla == Next \/ LoteFase2Falla

SpecSolverFalla == Init /\ [][NextSolverFalla]_vars

-----------------------------------------------------------------------------
(* Single calls of the pure functions: SpecCalc *)

ListasCalc == { <<>> } \cup { <<d>> : d \in Descripciones }
                 \cup { <<d, e>> : d \in Descripciones, e \in {{"res"}, {"pollo"}} }

FacturasCalc ==
    { Factura(1, t, 0, "A", c, None, NoPdf) : t \in {100, 300}, c \in ListasCalc }

RemisionesCalc ==
    { Remision(1, t, f, rfc, "", "", d) :
        t \in {100, 99, 90, 300}, f \in {0, -2, -10, -20}, rfc \in {"A"},
        d \in ListasCalc }

PerfilesPool ==
    { [ total |-> t, uuid |-> u ] : t \in {100, 150, 200, 400}, u \in {"", "U"} }
    \cup { [ total |-> 149, uuid |-> "" ] }

PoolsDe(n) ==
    { [ i \in 1..n |-> Remision(i, p[i].total, 0, "A", p[i].uuid, "", <<>>) ] :
        p \in [ 1..n -> PerfilesPool ] }

PoolsCalc == UNION { PoolsDe(n) : n \in 0..MaxPool }

CalcularScore ==
    /\ calc.op = "inicio"
    /\ \E f \in FacturasCalc, r \in RemisionesCalc :
         LET score == calcular_score(f, r)
         IN calc' = [ op        |-> "score",
                      factura   |-> f,
                      remision  |-> r,
                      score     |-> score,
                      resultado |-> aplicar_resultado_simple(ResultadoBase(f), r, score, f) ]
    /\ UNCHANGED <<ledger, facturas, remisiones_usadas, pc, lote, usadas_al_entrar,
                   candidatas_por_factura, asignaciones, orden, resultados,
                   solver, anterior>>

BuscarCombinacion ==
    /\ calc.op = "inicio"
    /\ \E rs \in PoolsCalc :
         LET f == Factura(1, 300, 0, "A", <<>>, None, NoPdf)
         IN calc' = [ op         |-> "combinacion",
                      factura    |-> f,
                      remisiones |-> rs,
                      busqueda   |-> BusquedaCombinacion(f, rs, LIMITE_CANDIDATAS) ]
    /\ UNCHANGED <<ledger, facturas, remisiones_usadas, pc, lote, usadas_al_entrar,
                   candidatas_por_factura, asignaciones, orden, resultados,
                   solver, anterior>>

MaxDiasFecha == 32

\* _calcular_score for one invoice against two receipts that differ in their
\* date only.
CompararFechas ==
    /\ calc.op = "inicio"
    /\ \E f1, f2 \in (-MaxDiasFecha)..MaxDiasFecha :
         LET f == Factura(1, 100, 0, "A", <<{"res"}>>, None, NoPdf)
             r1 == Remision(1, 100, f1, "A", "", "", <<{"res"}>>)
             r2 == Remision(1, 100, f2, "A", "", "", <<{"res"}>>)
         IN calc' = [ op      |-> "fechas",
                      factura |-> f,
                      fecha1  |-> f1,
                      fecha2  |-> f2,
                      score1  |-> calcular_score(f, r1),
                      score2  |-> calcular_score(f, r2) ]
    /\ UNCHANGED <<ledger, facturas, remisiones_usadas, pc, lote, usadas_al_entrar,
                   candidatas_por_factura, asignaciones, orden, resultados,
                   solver, anterior>>

MaxDiferenciaMonto == 30

\* _calcular_score and _calcular_score_multi for one invoice of 100 against
\* two receipts, and two pairs of receipts, that differ in their total only.
CompararMontos ==
    /\ calc.op = "inicio"
    /\ \E t1, t2 \in (100 - MaxDiferenciaMonto)..(100 + MaxDiferenciaMonto) :
         LET f == Factura(1, 100, 0, "A", <<{"res"}>>, None, NoPdf)
             r(id, t) == Remision(id, t, 0, "A", "", "", <<{"res"}>>)
         IN calc' = [ op      |-> "montos",
                      factura |-> f,
                      total1  |-> t1,
                      total2  |-> t2,
                      score1  |-> calcular_score(f, r(1, t1)),
                      score2  |-> calcular_score(f, r(1, t2)),
                      multi1  |-> calcular_score_multi(f, <<r(1, 50), r(2, t1 - 50)>>),
                      multi2  |-> calcular_score_multi(f, <<r(1, 50), r(2, t2 - 50)>>) ]
    /\ UNCHANGED <<ledger, facturas, remisiones_usadas, pc, lote, usadas_al_entrar,
                   candidatas_por_factura, asignaciones, orden, resultados,
                   solver, anterior>>

Reiniciar ==
    /\ calc.op # "inicio"
    /\ calc' = [ op |-> "inicio" ]
    /\ UNCHANGED <<ledger, facturas, remisiones_usadas, pc, lote, usadas_al_entrar,
                   candidatas_por_factura, asignaciones, orden, resultados,
                   solver, anterior>>

InitCalc ==
    /\ calc = [ op |-> "inicio" ]
    /\ ledger = <<>>
    /\ facturas = <<>>
    /\ remisiones_usadas = {}
    /\ pc = "reposo"
    /\ lote = 0
    /\ usadas_al_entrar = {}
    /\ candidatas_por_factura = <<>>
    /\ asignaciones = <<>>
    /\ orden = <<>>
    /\ resultados = <<>>
    /\ solver = {}
    /\ anterior = SinLoteAnterior

NextCalc ==
    CalcularScore \/ BuscarCombinacion \/ CompararFechas \/ CompararMontos \/ Reiniciar

SpecCalc == InitCalc /\ [][NextCalc]_vars

-----------------------------------------------------------------------------
(* Batches of equal invoices: SpecIguales *)

MaxIguales == 3

\* Dates of the receipts of total 100, latest first.
FechasIguales(k) ==
    { fs \in [ 1..k -> {0, -2} ] : \A i \in 1..(k - 1) : fs[i] >= fs[i + 1] }

\* What else the ledger holds for the same supplier and days.
Extras ==
    { <<>>,
      << [ total |-> 70, fecha |-> 0, uuid |-> "", ref |-> "", detalles |-> <<{"res"}>> ],
         [ total |-> 30, fecha |-> 0, uuid |-> "", ref |-> "", detalles |-> <<{"res"}>> ] >>,
      << [ total |-> 100, fecha |-> 0, uuid |-> "U", ref |-> "", detalles |-> <<{"res"}>> ] >>,
      << [ total |-> 99, fecha |-> 0, uuid |-> "", ref |-> "", detalles |-> <<{"res"}>> ] >> }

InitIguales ==
    /\ \E k \in 2..MaxIguales :
         /\ facturas = [ i \in 1..k |->
                           Factura(i, 100, 0, "A", <<{"res"}>>, None, NoPdf) ]
         /\ \E fs \in FechasIguales(k), extras \in Extras :
              ledger = Numerar(
                  [ i \in 1..k |-> [ total |-> 100, fecha |-> fs[i], uuid |-> "",
                                     ref |-> "", detalles |-> <<{"res"}>> ] ]
                  \o extras)
    /\ remisiones_usadas = {}
    /\ pc = "reposo"
    /\ lote = 0
    /\ usadas_al_entrar = {}
    /\ candidatas_por_factura = <<>>
    /\ asignaciones = <<>>
    /\ orden = <<>>
    /\ resultados = <<>>
    /\ solver = {}
    /\ anterior = SinLoteAnterior
    /\ calc = [ op |-> "inicio" ]

SpecIguales == InitIguales /\ [][Next]_vars

-----------------------------------------------------------------------------
(* Single invoices against a crowded ledger: SpecPoolGrande *)

MaxRelleno == 16

\* n receipts of one total that add up to nothing useful, then two receipts
\* that sum to the invoice total, within the first range or only within the
\* range of the second pass; all of supplier "A".
LedgerPoolGrande(n, relleno, par, fecha_par) ==
    Numerar([ i \in 1..(n + 2) |->
                [ total    |-> IF i <= n THEN relleno ELSE par[i - n],
                  fecha    |-> IF i <= n THEN 0 ELSE fecha_par,
                  uuid     |-> "",
                  ref      |-> "",
                  detalles |-> <<{"res"}>> ] ])

InitPoolGrande ==
    /\ \E n \in 0..MaxRelleno, relleno \in {70, 80},
          par \in { <<50, 50>>, <<60, 40>> }, fecha_par \in {0, -1, -10} :
         ledger = LedgerPoolGrande(n, relleno, par, fecha_par)
    /\ facturas = << Factura(1, 100, 0, "A", <<{"res"}>>, None, NoPdf) >>
    /\ remisiones_usadas = {}
    /\ pc = "reposo"
    /\ lote = 0
    /\ usadas_al_entrar = {}
    /\ candidatas_por_factura = <<>>
    /\ asignaciones = <<>>
    /\ orden = <<>>
    /\ resultados = <<>>
    /\ solver = {}
    /\ anterior = SinLoteAnterior
    /\ calc = [ op |-> "inicio" ]

NextPoolGrande == ConciliarFactura \/ Reiniciar

SpecPoolGrande == InitPoolGrande /\ [][NextPoolGrande]_vars

-----------------------------------------------------------------------------
(* conciliar_factura stage by stage: SpecEtapas.  calc holds the call in    *)
(* progress: etapa is the stage about to run ("fin": the call returned),    *)
(* etapas lists the stages that ran with whether each returned a result,    *)
(* consultas lists the repository queries made so far.                      *)

PDF_SUPPORT == TRUE

\* The stage control passes to: a stage that returns a result ends the call.
SiguienteEtapa_sin_retorno(etapa, hay) ==
    IF etapa = "pdf" THEN "directo"
    ELSE IF etapa = "directo" THEN "heuristica"
    ELSE "fin"

SiguienteEtapa(etapa, hay) ==
    IF hay THEN "fin"
    ELSE IF etapa = "pdf" THEN "directo"
    ELSE IF etapa = "directo" THEN "heuristica"
    ELSE "fin"

ConsultasReferencia(ref, rfc) ==
    IF buscar_por_orden_compra(ref, rfc) # <<>>
    THEN << "buscar_por_orden_compra" >>
    ELSE << "buscar_por_orden_compra", "buscar_por_orden_compra" >>

RECURSIVE ConsultasReferencias(_, _)
ConsultasReferencias(refs, rfc) ==
    IF refs = <<>> THEN <<>>
    ELSE ConsultasReferencia(Head(refs), rfc) \o ConsultasReferencias(Tail(refs), rfc)

\* The queries _buscar_por_pdf makes
ConsultasPdf(factura) ==
    IF \/ ~factura.pdf.exito
       \/ (factura.pdf.remisiones_encontradas = <<>> /\ factura.pdf.orden_compra = "")
    THEN <<>>
    ELSE ConsultasReferencias(factura.pdf.remisiones_encontradas, factura.rfc_emisor)
         \o (IF /\ BuscarReferencias(factura.pdf.remisiones_encontradas,
                                     factura.rfc_emisor) = <<>>
                /\ factura.pdf.orden_compra # ""
             THEN ConsultasReferencia(factura.pdf.orden_compra, factura.rfc_emisor)
             ELSE <<>>)

\* The queries _buscar_por_numero_directo makes
ConsultasDirecto(factura) ==
    IF buscar_por_numero(factura.numero_remision_indicado, factura.rfc_emisor) # <<>>
    THEN << "buscar_por_numero" >>
    ELSE << "buscar_por_numero", "buscar_por_numero" >>

\* The queries of the heuristic stage: the second pass is made when the
\* first search found no exact combination.
ConsultasHeuristica(factura) ==
    LET remisiones == SinUsadas(buscar_para_conciliacion(factura.rfc_emisor,
                          factura.fecha_emision, factura.total, dias_rango_busqueda))
        multi == buscar_combinacion_remisiones(factura, remisiones, LIMITE_CANDIDATAS)
    IN IF remisiones = <<>> THEN << "buscar_para_conciliacion" >>
       ELSE IF multi = NoScore \/ multi.diferencia_monto # 0
       THEN << "buscar_para_conciliacion", "buscar_para_conciliacion" >>
       ELSE << "buscar_para_conciliacion" >>

\* archivo_xml: the invoice carries the path of its XML file; without it no
\* PDF can be looked up.
IniciarConciliacion ==
    /\ pc = "reposo"
    /\ calc.op = "inicio"
    /\ \E p \in DOMAIN facturas, archivo_xml \in BOOLEAN :
         /\ ~archivo_xml => facturas[p].pdf = NoPdf
         /\ calc' = [ op          |-> "conciliar",
                      factura     |-> facturas[p],
                      archivo_xml |-> archivo_xml,
                      etapa       |-> "pdf",
                      resultado   |-> ResultadoBase(facturas[p]),
                      etapas      |-> <<>>,
                      consultas   |-> <<>> ]
    /\ UNCHANGED <<ledger, facturas, remisiones_usadas, pc, lote, usadas_al_entrar,
                   candidatas_por_factura, asignaciones, orden, resultados,
                   solver, anterior>>

EtapaPdf ==
    /\ calc.op = "conciliar"
    /\ calc.etapa = "pdf"
    /\ LET resultado_pdf == buscar_por_pdf(calc.factura, calc.resultado)
       IN IF PDF_SUPPORT /\ calc.archivo_xml
          THEN calc' = [ calc EXCEPT
                           !.etapa = SiguienteEtapa("pdf", resultado_pdf.hay),
                           !.resultado = resultado_pdf.resultado,
                           !.etapas = Append(@, [ etapa |-> "pdf",
                                                  hay   |-> resultado_pdf.hay ]),
                           !.consultas = @ \o ConsultasPdf(calc.factura) ]
          ELSE calc' = [ calc EXCEPT !.etapa = SiguienteEtapa("pdf", FALSE) ]
    /\ UNCHANGED <<ledger, facturas, remisiones_usadas, pc, lote, usadas_al_entrar,
                   candidatas_por_factura, asignaciones, orden, resultados,
                   solver, anterior>>

EtapaDirecto ==
    /\ calc.op = "conciliar"
    /\ calc.etapa = "directo"
    /\ LET resultado_directo == buscar_por_numero_directo(calc.factura, calc.resultado)
       IN IF calc.factura.numero_remision_indicado # None
          THEN calc' = [ calc EXCEPT
                           !.etapa = SiguienteEtapa("directo", resultado_directo.hay),
                           !.resultado = resultado_directo.resultado,
                           !.etapas = Append(@, [ etapa |-> "directo",
                                                  hay   |-> resultado_directo.hay ]),
                           !.consultas = @ \o ConsultasDirecto(calc.factura) ]
          ELSE calc' = [ calc EXCEPT !.etapa = SiguienteEtapa("directo", FALSE) ]
    /\ UNCHANGED <<ledger, facturas, remisiones_usadas, pc, lote, usadas_al_entrar,
                   candidatas_por_factura, asignaciones, orden, resultados,
                   solver, anterior>>

EtapaHeuristica ==
    /\ calc.op = "conciliar"
    /\ calc.etapa = "heuristica"
    /\ calc' = [ calc EXCEPT
                   !.etapa = SiguienteEtapa("heuristica", TRUE),
                   !.resultado = Heuristica(calc.factura, calc.resultado),
                   !.etapas = Append(@, [ etapa |-> "heuristica", hay |-> TRUE ]),
                   !.consultas = @ \o ConsultasHeuristica(calc.factura) ]
    /\ UNCHANGED <<ledger, facturas, remisiones_usadas, pc, lote, usadas_al_entrar,
                   candidatas_por_factura, asignaciones, orden, resultados,
                   solver, anterior>>

Retornar ==
    /\ calc.op = "conciliar"
    /\ calc.etapa = "fin"
    /\ calc' = [ op |-> "inicio" ]
    /\ UNCHANGED <<ledger, facturas, remisiones_usadas, pc, lote, usadas_al_entrar,
                   candidatas_por_factura, asignaciones, orden, resultados,
                   solver, anterior>>

\* PDFs naming a reference no receipt carries, and an explicit purchase order
PdfDesconocida == [ exito |-> TRUE, remisiones_encontradas |-> <<"P9">>, orden_compra |-> "" ]

PdfOrdenP1 == [ exito |-> TRUE, remisiones_encontradas |-> <<>>, orden_compra |-> "P1" ]

\* Batches of one invoice with every mix of PDF and hinted number
LotesEtapas ==
    { << Factura(1, total, 0, "A", <<{"res"}>>, indicado, pdf) >> :
        total \in {100, 200},
        indicado \in {None} \cup (1..NumRemisiones),
        pdf \in {NoPdf, PdfP1, PdfDesconocida, PdfOrdenP1} }

\* Ledgers whose receipt of reference P1 is 2, 3 and 0.5 percent away from
\* an invoice of 100 or 200
LedgersPdf ==
    { Numerar(<< [ total |-> t,   fecha |-> 0,  uuid |-> "", ref |-> "P1", detalles |-> <<{"res"}>> ],
                 [ total |-> 100, fecha |-> 0,  uuid |-> "", ref |-> "",   detalles |-> <<{"res"}>> ],
                 [ total |-> 30,  fecha |-> -2, uuid |-> "", ref |-> "",   detalles |-> <<{"res"}>> ] >>) :
        t \in {98, 102, 97, 196, 199} }

\* Ledgers where two rows carry the same receipt number, of the invoice's
\* supplier A or of another one
LedgersNumeroRepetido ==
    { << Remision(1, 90,  0, rfc1, "", "", <<{"res"}>>),
         Remision(1, 100, 0, rfc2, "", "", <<{"res"}>>),
         Remision(2, 100, 0, rfc3, "", "", <<{"res"}>>) >> :
        rfc1 \in {"A", "B"}, rfc2 \in {"A", "B"}, rfc3 \in {"A", "B"} }

\* The matcher between batches: remisiones_usadas holds what the last batch
\* consumed.
InitEtapas ==
    /\ ledger \in Ledgers \cup LedgersPdf \cup LedgersNumeroRepetido
    /\ facturas \in LotesEtapas
    /\ remisiones_usadas \in { {} } \cup { {i} : i \in 1..NumRemisiones }
    /\ pc = "reposo"
    /\ lote = 0
    /\ usadas_al_entrar = {}
    /\ candidatas_por_factura = <<>>
    /\ asignaciones = <<>>
    /\ orden = <<>>
    /\ resultados = <<>>
    /\ solver = {}
    /\ anterior = SinLoteAnterior
    /\ calc = [ op |-> "inicio" ]

NextEtapas ==
    IniciarConciliacion \/ EtapaPdf \/ EtapaDirecto \/ EtapaHeuristica \/ Retornar

SpecEtapas == InitEtapas /\ [][NextEtapas]_vars

-----------------------------------------------------------------------------
(* CFDIParser (src/sat/xml_parser.py) and Factura.to_dict: SpecCFDI.        *)
(* A document is the element tree lxml builds.  An attribute is a record:   *)
(* presente says whether the element carries it; a text attribute has its   *)
(* texto, a numeric one has numero (the text is a decimal literal) and      *)
(* valor.  A child of a list element is an element or a comment; the tag of *)
(* a comment is not a string, so a test "'X' in child.tag" on it raises.    *)

Texto(t) == [ presente |-> TRUE, texto |-> t ]

SinTexto == [ presente |-> FALSE, texto |-> "" ]

Numero(n) == [ presente |-> TRUE, numero |-> TRUE, valor |-> n ]

NoNumero == [ presente |-> TRUE, numero |-> FALSE, valor |-> 0 ]

SinNumeroAtributo == [ presente |-> FALSE, numero |-> FALSE, valor |-> 0 ]

Comentario == [ tipo |-> "comentario" ]

Traslado(impuesto, importe) ==
    [ tipo |-> "Traslado", impuesto |-> impuesto, importe |-> importe ]

ConceptoXml(descripcion, cantidad, traslados) ==
    [ tipo |-> "Concepto", descripcion |-> descripcion, cantidad |-> cantidad,
      traslados |-> traslados ]

\* element.get(name, default) for a text attribute
get(atributo, defecto) == IF atributo.presente THEN atributo.texto ELSE defecto

\* _parse_decimal(element.get(name, default)): the default when the attribute
\* is missing, 0 when the text is empty or no decimal literal.
parse_decimal(atributo, defecto) ==
    IF ~atributo.presente THEN defecto
    ELSE IF atributo.numero THEN atributo.valor
    ELSE 0

\* The loop over the children of a Traslados element: error when a child is
\* a comment, else the sum of the Importe of the children of tax '002'.
RECURSIVE SumaIva(_)
SumaIva(hijos) ==
    IF hijos = <<>> THEN [ error |-> FALSE, iva |-> 0 ]
    ELSE IF Head(hijos).tipo # "Traslado" THEN [ error |-> TRUE, iva |-> 0 ]
    ELSE LET resto == SumaIva(Tail(hijos))
         IN [ error |-> resto.error,
              iva   |-> resto.iva + (IF Head(hijos).impuesto = "002"
                                     THEN parse_decimal(Head(hijos).importe, 0)
                                     ELSE 0) ]

\* _parse_impuestos: iva_trasladado, or the exception of the loop.
parse_impuestos(doc) ==
    IF ~doc.impuestos.presente \/ ~doc.impuestos.traslados_presente
    THEN [ error |-> FALSE, iva |-> 0 ]
    ELSE SumaIva(doc.impuestos.traslados)

\* _parse_conceptos over the children of the Conceptos element: the test on
\* the tag raises on a comment; a Concepto whose own parsing raises (a
\* comment among its Traslado children) is logged and left out.
RECURSIVE parse_conceptos(_)
parse_conceptos(hijos) ==
    IF hijos = <<>> THEN [ error |-> FALSE, conceptos |-> <<>> ]
    ELSE IF Head(hijos).tipo # "Concepto" THEN [ error |-> TRUE, conceptos |-> <<>> ]
    ELSE LET resto == parse_conceptos(Tail(hijos))
         IN [ error |-> resto.error,
              conceptos |->
                (IF SumaIva(Head(hijos).traslados).error THEN <<>>
                 ELSE << [ descripcion |-> get(Head(hijos).descripcion, ""),
                           cantidad    |-> parse_decimal(Head(hijos).cantidad, 1) ] >>)
                \o resto.conceptos ]

SinFactura == [ hay |-> FALSE ]

\* _parse_comprobante: None without UUID or on any exception.
parse_comprobante(doc) ==
    LET uuid == IF doc.timbre.presente THEN get(doc.timbre.uuid, "") ELSE ""
        impuestos == parse_impuestos(doc)
        conceptos == IF doc.conceptos.presente THEN parse_conceptos(doc.conceptos.hijos)
                     ELSE [ error |-> FALSE, conceptos |-> <<>> ]
    IN IF uuid = "" THEN SinFactura
       ELSE IF impuestos.error \/ conceptos.error THEN SinFactura
       ELSE [ hay            |-> TRUE,
              uuid           |-> uuid,
              serie          |-> doc.serie,
              folio          |-> doc.folio,
              rfc_emisor     |-> IF doc.emisor.presente THEN get(doc.emisor.rfc, "") ELSE "",
              rfc_receptor   |-> IF doc.receptor.presente THEN get(doc.receptor.rfc, "") ELSE "",
              subtotal       |-> parse_decimal(doc.subtotal, 0),
              total          |-> parse_decimal(doc.total, 0),
              iva_trasladado |-> impuestos.iva,
              conceptos      |-> conceptos.conceptos ]

\* parse_string: None when etree.fromstring raises.
parse_string(doc) ==
    IF ~doc.sintaxis_correcta THEN SinFactura ELSE parse_comprobante(doc)

\* Factura.to_dict: the keys and, for the keys the claims are about, the values.
to_dict(factura) ==
    [ claves |-> { "uuid", "serie", "folio", "identificador", "fecha_emision",
                   "fecha_timbrado", "rfc_emisor", "nombre_emisor", "rfc_receptor",
                   "nombre_receptor", "tipo_comprobante", "metodo_pago", "forma_pago",
                   "subtotal", "descuento", "iva_trasladado", "total", "moneda",
                   "total_conceptos", "archivo_xml", "conceptos" },
      uuid |-> factura.uuid,
      total_conceptos |-> Len(factura.conceptos),
      conceptos |-> [ i \in DOMAIN factura.conceptos |->
                        [ descripcion |-> factura.conceptos[i].descripcion,
                          cantidad    |-> factura.conceptos[i].cantidad ] ] ]

MaxConceptos == 2

HijosConceptos ==
    LET hijo == { ConceptoXml(Texto("CARNE DE RES"), Numero(100), <<Traslado("002", Numero(16))>>),
                  ConceptoXml(Texto("POLLO"), Numero(5), <<Comentario, Traslado("002", Numero(16))>>),
                  Comentario }
    IN UNION { [ 1..n -> hijo ] : n \in 0..MaxConceptos }

ImpuestosXml ==
    { [ presente |-> FALSE, traslados_presente |-> FALSE, traslados |-> <<>> ],
      [ presente |-> TRUE,  traslados_presente |-> FALSE, traslados |-> <<>> ] }
    \cup { [ presente |-> TRUE, traslados_presente |-> TRUE, traslados |-> t ] :
             t \in { <<Traslado("002", Numero(16))>>,
                     <<Traslado("002", Numero(16)), Traslado("003", Numero(5))>>,
                     <<Traslado("002", Numero(16)), Traslado("002", SinNumeroAtributo)>>,
                     <<Traslado("002", Numero(16)), Comentario>> } }

TimbresXml ==
    { [ presente |-> FALSE, uuid |-> SinTexto ],
      [ presente |-> TRUE,  uuid |-> SinTexto ],
      [ presente |-> TRUE,  uuid |-> Texto("") ],
      [ presente |-> TRUE,  uuid |-> Texto("ABC12345") ] }

Documentos ==
    { [ sintaxis_correcta |-> sintaxis,
        serie     |-> serie,
        folio     |-> Texto("12345"),
        subtotal  |-> subtotal,
        total     |-> total,
        emisor    |-> emisor,
        receptor  |-> [ presente |-> TRUE, rfc |-> Texto("CACX7605101P8") ],
        conceptos |-> conceptos,
        impuestos |-> impuestos,
        timbre    |-> timbre ] :
        sintaxis \in BOOLEAN,
        serie \in { Texto("A"), SinTexto },
        subtotal \in { Numero(100), NoNumero, SinNumeroAtributo },
        total \in { Numero(116), NoNumero },
        emisor \in { [ presente |-> TRUE, rfc |-> Texto("XAXX010101000") ],
                     [ presente |-> FALSE, rfc |-> SinTexto ] },
        conceptos \in { [ presente |-> FALSE, hijos |-> <<>> ] }
                      \cup { [ presente |-> TRUE, hijos |-> h ] : h \in HijosConceptos },
        impuestos \in ImpuestosXml,
        timbre \in TimbresXml }

ParseString ==
    /\ calc.op = "inicio"
    /\ \E doc \in Documentos :
         calc' = [ op        |-> "parse",
                   documento |-> doc,
                   factura   |-> parse_string(doc),
                   dict      |-> IF parse_string(doc).hay
                                 THEN to_dict(parse_string(doc))
                                 ELSE [ claves |-> {} ] ]
    /\ UNCHANGED <<ledger, facturas, remisiones_usadas, pc, lote, usadas_al_entrar,
                   candidatas_por_factura, asignaciones, orden, resultados,
                   solver, anterior>>

NextCFDI == ParseString \/ Reiniciar

SpecCFDI == InitCalc /\ [][NextCFDI]_vars

-----------------------------------------------------------------------------
(* ConsolidadorSAV7: the writes of a consolidation into the ERP database.   *)
(* A database holds the Serie F headers of SAVRecC (cabeceras), the Serie F *)
(* lines of SAVRecD (detalles) and the Serie R rows of SAVRecC by NumRec    *)
(* (remisiones), each with the number of its SAVRecD lines.  The one pyodbc *)
(* connection (autocommit off) sees conexion; confirmada is committed.      *)

\* The reserved range of the agent (docstring of
\* _obtener_siguiente_numrec_con_lock).
numrec_rango_minimo == 800000

MaxNumRec(cabeceras) ==
    IF cabeceras = {} THEN 0
    ELSE CHOOSE n \in cabeceras : \A m \in cabeceras : m <= n

obtener_siguiente_numrec_con_lock(bd) ==
    LET siguiente == MaxNumRec(bd.cabeceras) + 1
    IN IF siguiente > numrec_rango_minimo THEN siguiente ELSE numrec_rango_minimo

Sentencia(sentencia, remision, partida) ==
    [ sentencia |-> sentencia, remision |-> remision, partida |-> partida ]

\* _insertar_detalles_factura: per receipt the SELECT of its lines through
\* execute_custom_query and one INSERT per line.
RECURSIVE SentenciasDetalles(_, _)
SentenciasDetalles(remisiones, bd) ==
    IF remisiones = <<>> THEN <<>>
    ELSE LET r == Head(remisiones)
             partidas == IF r \in DOMAIN bd.remisiones
                         THEN bd.remisiones[r].partidas ELSE 0
         IN <<Sentencia("select_detalles", r, 0)>>
            \o [ k \in 1..partidas |-> Sentencia("insert_detalle", r, k) ]
            \o SentenciasDetalles(Tail(remisiones), bd)

\* What the with-block of consolidar executes, in order, and the commit of
\* get_cursor on leaving it.
Sentencias(remisiones, bd) ==
    << Sentencia("select_numrec", 0, 0),
       Sentencia("select_impuestos", 0, 0),
       Sentencia("insert_cabecera", 0, 0) >>
    \o SentenciasDetalles(remisiones, bd)
    \o [ k \in DOMAIN remisiones |-> Sentencia("update_remision", remisiones[k], 0) ]
    \o << Sentencia("commit", 0, 0) >>

\* conn.commit() and conn.rollback() of DatabaseConnection.get_cursor
commit(e) == [ e EXCEPT !.confirmada = e.conexion ]

rollback(e) == [ e EXCEPT !.conexion = e.confirmada ]

\* execute_custom_query -> execute_query: its own get_cursor on the same
\* connection, which commits when the query returns.
execute_custom_query(e) == commit(e)

actualizar_remision_consolidada(bd, remision, num_factura) ==
    IF remision \in DOMAIN bd.remisiones
    THEN [ bd EXCEPT !.remisiones[remision].Estatus = "Consolidada",
                     !.remisiones[remision].ConsolidaNumRec = num_factura ]
    ELSE bd

\* The effect of one statement on e = [confirmada, conexion, num_rec, secuencia].
EjecutarSentencia(s, e) ==
    CASE s.sentencia = "select_numrec" ->
           [ e EXCEPT !.num_rec = obtener_siguiente_numrec_con_lock(e.conexion) ]
      [] s.sentencia = "select_impuestos" -> e
      [] s.sentencia = "insert_cabecera" ->
           [ e EXCEPT !.conexion.cabeceras = @ \cup {e.num_rec} ]
      [] s.sentencia = "select_detalles" -> execute_custom_query(e)
      [] s.sentencia = "insert_detalle" ->
           [ e EXCEPT !.conexion.detalles = @ \cup
                          { [ num_rec  |-> e.num_rec,
                              cod_prov |-> <<s.remision, s.partida>>,
                              orden    |-> e.secuencia ] },
                      !.secuencia = @ + 1 ]
      [] s.sentencia = "update_remision" ->
           [ e EXCEPT !.conexion =
                 actualizar_remision_consolidada(@, s.remision, e.num_rec) ]
      [] s.sentencia = "commit" -> commit(e)

\* The with-block when statement number fallo raises (0: none does): the
\* exception reaches the except branch of get_cursor, which rolls back.
RECURSIVE Transaccion(_, _, _, _)
Transaccion(sentencias, i, fallo, e) ==
    IF i > Len(sentencias) THEN [ exito |-> TRUE, e |-> e ]
    ELSE IF i = fallo THEN [ exito |-> FALSE, e |-> rollback(e) ]
    ELSE Transaccion(sentencias, i + 1, fallo, EjecutarSentencia(sentencias[i], e))

ResultadoConsolidacion(exito, numero_factura_erp, remisiones_consolidadas, mensaje) ==
    [ exito |-> exito, numero_factura_erp |-> numero_factura_erp,
      remisiones_consolidadas |-> remisiones_consolidadas, mensaje |-> mensaje ]

\* consolidar on the database bd: the result and the database it leaves.
consolidar(factura_sat, remisiones, resultado_conciliacion, fallo, bd) ==
    IF remisiones = <<>>
    THEN [ bd |-> bd,
           resultado |-> ResultadoConsolidacion(FALSE, None, <<>>, "No hay remisiones") ]
    ELSE IF resultado_conciliacion.diferencia_porcentaje # 0
    THEN [ bd |-> bd,
           resultado |-> ResultadoConsolidacion(FALSE, None, <<>>, "Match no es 100%") ]
    ELSE IF factura_sat.uuid = ""
    THEN [ bd |-> bd,
           resultado |-> ResultadoConsolidacion(FALSE, None, <<>>, "UUID vacio") ]
    ELSE LET t == Transaccion(Sentencias(remisiones, bd), 1, fallo,
                              [ confirmada |-> bd, conexion |-> bd,
                                num_rec |-> 0, secuencia |-> 1 ])
         IN [ bd |-> t.e.confirmada,
              resultado |->
                IF t.exito
                THEN ResultadoConsolidacion(TRUE, t.e.num_rec, remisiones,
                                            "Consolidacion exitosa")
                ELSE ResultadoConsolidacion(FALSE, None, <<>>,
                                            "Error durante la consolidacion") ]

\* Variant: every receipt is taken as available.
verificar_remision_disponible_siempre(num_rec, bd) == TRUE

verificar_remision_disponible(num_rec, bd) ==
    /\ num_rec \in DOMAIN bd.remisiones
    /\ bd.remisiones[num_rec].Estatus # "Consolidada"
    /\ bd.remisiones[num_rec].Consolidacion # 1

remisiones_no_disponibles(remisiones, bd) ==
    LET disponible(r) == verificar_remision_disponible(r, bd)
    IN SelectSeq(remisiones, LAMBDA r : ~disponible(r))

\* One iteration of the loop of consolidar_lote.  fallo < 0: the
\* availability query of receipt -fallo of the pair raises, which ends
\* consolidar_lote with the exception.
IteracionLote(par, fallo, bd) ==
    IF par.resultado.diferencia_porcentaje # 0
    THEN [ bd |-> bd, excepcion |-> FALSE,
           resultado |-> ResultadoConsolidacion(FALSE, None, <<>>,
                                                "Omitido: Match no es 100%") ]
    ELSE IF par.resultado.remisiones = <<>>
    THEN [ bd |-> bd, excepcion |-> FALSE,
           resultado |-> ResultadoConsolidacion(FALSE, None, <<>>,
                                                "Omitido: No hay remisiones vinculadas") ]
    ELSE IF fallo < 0
    THEN [ bd |-> bd, excepcion |-> TRUE,
           resultado |-> ResultadoConsolidacion(FALSE, None, <<>>, "excepcion") ]
    ELSE IF remisiones_no_disponibles(par.resultado.remisiones, bd) # <<>>
    THEN [ bd |-> bd, excepcion |-> FALSE,
           resultado |-> ResultadoConsolidacion(FALSE, None, <<>>,
                                                "Omitido: Remisiones ya consolidadas") ]
    ELSE [ bd |-> consolidar(par.factura, par.resultado.remisiones,
                             par.resultado, fallo, bd).bd,
           excepcion |-> FALSE,
           resultado |-> consolidar(par.factura, par.resultado.remisiones,
                                    par.resultado, fallo, bd).resultado ]

\* The points at which a call can raise: none (0), a statement of the
\* transaction, or (negative) an availability query.
PuntosDeFallo(par, bd, con_verificacion) ==
    IF par.resultado.remisiones = <<>> \/ par.resultado.diferencia_porcentaje # 0
    THEN {0}
    ELSE (IF par.factura.uuid = "" THEN {0}
          ELSE 0..Len(Sentencias(par.resultado.remisiones, bd)))
         \cup (IF con_verificacion
               THEN { -k : k \in DOMAIN par.resultado.remisiones } ELSE {})

\* Bounds of the consolidation runs
MaxLlamadas == 1

MaxLotesConsolidacion == 1

MaxPares == 2

SinLlamada == [ metodo |-> "ninguno" ]

\* A direct call of consolidar on one of the pairs.
Consolidar ==
    /\ calc.op = "consolidacion"
    /\ calc.estado = "reposo"
    /\ calc.llamadas < MaxLlamadas
    /\ \E p \in DOMAIN calc.pares :
         \E fallo \in PuntosDeFallo(calc.pares[p], calc.bd, FALSE) :
           calc' = [ calc EXCEPT
                       !.bd = consolidar(calc.pares[p].factura,
                                         calc.pares[p].resultado.remisiones,
                                         calc.pares[p].resultado, fallo, calc.bd).bd,
                       !.llamadas = @ + 1,
                       !.ultima =
                          [ metodo |-> "consolidar", par |-> calc.pares[p],
                            antes |-> calc.bd, fallo |-> fallo,
                            resultado |->
                              consolidar(calc.pares[p].factura,
                                         calc.pares[p].resultado.remisiones,
                                         calc.pares[p].resultado, fallo,
                                         calc.bd).resultado ] ]
    /\ UNCHANGED <<ledger, facturas, remisiones_usadas, pc, lote, usadas_al_entrar,
                   candidatas_por_factura, asignaciones, orden, resultados,
                   solver, anterior>>

\* consolidar_lote is called with the pairs.
ConsolidarLote ==
    /\ calc.op = "consolidacion"
    /\ calc.estado = "reposo"
    /\ calc.lotes < MaxLotesConsolidacion
    /\ calc' = [ calc EXCEPT !.estado = "lote", !.lotes = @ + 1,
                             !.resultados = <<>>, !.al_entrar = calc.bd,
                             !.ultima = SinLlamada ]
    /\ UNCHANGED <<ledger, facturas, remisiones_usadas, pc, lote, usadas_al_entrar,
                   candidatas_por_factura, asignaciones, orden, resultados,
                   solver, anterior>>

\* The loop body for the next pair.
ConsolidarPar ==
    /\ calc.op = "consolidacion"
    /\ calc.estado = "lote"
    /\ Len(calc.resultados) < Len(calc.pares)
    /\ \E fallo \in PuntosDeFallo(calc.pares[Len(calc.resultados) + 1], calc.bd, TRUE) :
         LET par == calc.pares[Len(calc.resultados) + 1]
         IN calc' = [ calc EXCEPT
                        !.bd = IteracionLote(par, fallo, calc.bd).bd,
                        !.estado = IF IteracionLote(par, fallo, calc.bd).excepcion
                                   THEN "excepcion" ELSE @,
                        !.resultados =
                            IF IteracionLote(par, fallo, calc.bd).excepcion THEN @
                            ELSE Append(@, IteracionLote(par, fallo, calc.bd).resultado),
                        !.ultima = [ metodo |-> "lote", par |-> par,
                                     antes |-> calc.bd, fallo |-> fallo,
                                     resultado |->
                                       IteracionLote(par, fallo, calc.bd).resultado ] ]
    /\ UNCHANGED <<ledger, facturas, remisiones_usadas, pc, lote, usadas_al_entrar,
                   candidatas_por_factura, asignaciones, orden, resultados,
                   solver, anterior>>

\* consolidar_lote returns its list.
ConsolidarLoteFin ==
    /\ calc.op = "consolidacion"
    /\ calc.estado = "lote"
    /\ Len(calc.resultados) = Len(calc.pares)
    /\ calc' = [ calc EXCEPT !.estado = "reposo" ]
    /\ UNCHANGED <<ledger, facturas, remisiones_usadas, pc, lote, usadas_al_entrar,
                   candidatas_por_factura, asignaciones, orden, resultados,
                   solver, anterior>>

\* Serie R rows: receipt 1 has one line, receipt 2 two, receipt 3 none.
FilaRemision(estatus, consolidacion, partidas) ==
    [ Estatus |-> estatus, Consolidacion |-> consolidacion,
      ConsolidaNumRec |-> 0, partidas |-> partidas ]

\* Databases before the run: receipt 3 pending, consolidated earlier (by
\* Estatus or by the Consolidacion flag) or absent.
BasesDeDatos ==
    { [ cabeceras |-> c, detalles |-> {},
        remisiones |-> (1 :> FilaRemision("PENDIENTE", 0, 1))
                       @@ (2 :> FilaRemision("PENDIENTE", 0, 2)) @@ r3 ] :
        c \in { {}, {numrec_rango_minimo} },
        r3 \in { 3 :> FilaRemision("PENDIENTE", 0, 0),
                 3 :> FilaRemision("Consolidada", 0, 0),
                 3 :> FilaRemision("PENDIENTE", 1, 0),
                 <<>> } }

Par(uuid, diferencia_porcentaje, remisiones) ==
    [ factura   |-> [ uuid |-> uuid ],
      resultado |-> [ diferencia_porcentaje |-> diferencia_porcentaje,
                      remisiones |-> remisiones ] ]

ParesConsolidacion ==
    { Par("U", 0, rs) : rs \in { <<>>, <<1>>, <<2>>, <<3>>, <<1, 2>>, <<2, 1>>, <<2, 3>> } }
    \cup { Par("U", 1, <<1>>), Par("", 0, <<1>>) }

InitConsolidacion ==
    /\ ledger = <<>>
    /\ facturas = <<>>
    /\ remisiones_usadas = {}
    /\ pc = "reposo"
    /\ lote = 0
    /\ usadas_al_entrar = {}
    /\ candidatas_por_factura = <<>>
    /\ asignaciones = <<>>
    /\ orden = <<>>
    /\ resultados = <<>>
    /\ solver = {}
    /\ anterior = SinLoteAnterior
    /\ \E bd \in BasesDeDatos, pares \in [ 1..MaxPares -> ParesConsolidacion ] :
         calc = [ op |-> "consolidacion", bd |-> bd, al_entrar |-> bd,
                  pares |-> pares, resultados |-> <<>>, estado |-> "reposo",
                  llamadas |-> 0, lotes |-> 0, ultima |-> SinLlamada ]

NextConsolidacion == Consolidar \/ ConsolidarLote \/ ConsolidarPar \/ ConsolidarLoteFin

SpecConsolidacion == InitConsolidacion /\ [][NextConsolidacion]_vars

-----------------------------------------------------------------------------
(* Claims on ConsolidadorSAV7, checked under SpecConsolidacion *)

\* The last step of the run went through consolidar (directly or from the
\* loop of consolidar_lote).
ConsolidarLlamado ==
    /\ calc.op = "consolidacion"
    /\ calc.ultima # SinLlamada
    /\ \/ calc.ultima.metodo = "consolidar"
       \/ calc.ultima.resultado.mensaje \in
            { "Consolidacion exitosa", "Error durante la consolidacion", "UUID vacio" }

\* The header, the copied lines and the receipt updates of the consolidation
\* of remisiones (those that have a row) under number num_rec are all in bd.
TodoPersistido(bd, antes, remisiones, num_rec) ==
    /\ num_rec \in bd.cabeceras \ antes.cabeceras
    /\ \A k \in DOMAIN remisiones :
          remisiones[k] \in DOMAIN antes.remisiones =>
          /\ remisiones[k] \in DOMAIN bd.remisiones
          /\ bd.remisiones[remisiones[k]].Estatus = "Consolidada"
          /\ bd.remisiones[remisiones[k]].ConsolidaNumRec = num_rec
          /\ \A p \in 1..antes.remisiones[remisiones[k]].partidas :
                \E d \in bd.detalles :
                    d.num_rec = num_rec /\ d.cod_prov = <<remisiones[k], p>>

ConsolidarSinRemisionesAMedias ==
    ConsolidarLlamado =>
        /\ calc.ultima.fallo > 0 => ~calc.ultima.resultado.exito
        /\ ~calc.ultima.resultado.exito =>
              calc.bd.remisiones = calc.ultima.antes.remisiones
        /\ calc.ultima.resultado.exito =>
              TodoPersistido(calc.bd, calc.ultima.antes,
                             calc.ultima.par.resultado.remisiones,
                             calc.ultima.resultado.numero_factura_erp)

\* Receipt r has a row that is not consolidated in bd.
SinConsolidar(r, bd) ==
    /\ r \in DOMAIN bd.remisiones
    /\ bd.remisiones[r].Estatus # "Consolidada"
    /\ bd.remisiones[r].Consolidacion # 1

Omitido(resultado) ==
    /\ ~resultado.exito
    /\ resultado.mensaje \in { "Omitido: Match no es 100%",
                               "Omitido: No hay remisiones vinculadas",
                               "Omitido: Remisiones ya consolidadas" }

RemisionesDelPar(i) == Rango(calc.pares[i].resultado.remisiones)

-----------------------------------------------------------------------------
(* Claims on conciliar_lote and conciliar_factura *)

\* The conciliar_lote call has returned: resultados is its return value.
LoteTerminado == pc = "reposo" /\ lote > 0

\* The result of position i comes from a conciliar_factura call of phase 3.
PorConciliarFactura(i) ==
    \/ candidatas_por_factura[orden[i]] = <<>>
    \/ ~asignaciones[orden[i]].asignada

\* C1 (as stated): in any run of conciliar_lote no receipt id appears in the
\* matched-receipt set of more than one returned result.
C1_SinRemisionRepetida ==
    \A i, j \in DOMAIN resultados :
        i # j => Rango(resultados[i].remisiones) \cap Rango(resultados[j].remisiones) = {}

\* C2 (as stated): whenever conciliar_factura returns a result with a non-empty
\* matched-receipt set, the ids of those receipts are in _remisiones_usadas
\* from that point until the next batch reset.
C2_EtapasRegistran ==
    /\ calc.op = "factura" => Rango(calc.resultado.remisiones) \subseteq remisiones_usadas
    /\ \A i \in DOMAIN resultados :
          PorConciliarFactura(i) =>
              Rango(resultados[i].remisiones) \subseteq remisiones_usadas

\* C3: no conciliar_factura call returns a receipt that is in the consumed set
\* when the call starts (the call leaves the set as it found it), and in
\* conciliar_lote the receipts of the optimal assignment are in the consumed
\* set throughout phase 3, so that no fallback result holds one of them.
C3_NoDevuelveUsadas ==
    /\ calc.op = "factura" =>
          Rango(calc.resultado.remisiones) \cap remisiones_usadas = {}
    /\ pc = "fase3" => IdsAsignadas(asignaciones) \subseteq remisiones_usadas
    /\ \A i \in DOMAIN resultados :
          PorConciliarFactura(i) =>
              /\ Rango(resultados[i].remisiones) \cap remisiones_usadas = {}
              /\ Rango(resultados[i].remisiones) \cap IdsAsignadas(asignaciones) = {}

\* C3 witness: an invoice whose exact candidates were all assigned to other
\* invoices fell back to conciliar_factura and got a receipt outside the
\* consumed set.
C3_Witness ==
    \E i \in DOMAIN resultados :
        /\ candidatas_por_factura[orden[i]] # <<>>
        /\ ~asignaciones[orden[i]].asignada
        /\ resultados[i].remisiones # <<>>
        /\ \A k \in DOMAIN candidatas_por_factura[orden[i]] :
              Rango(candidatas_por_factura[orden[i]][k].ids) \cap remisiones_usadas # {}

\* The batch of C4: k invoices of one issuer and one total T for which the
\* same k unlinked receipts of total T are retrievable.
RecuperablesDe(factura) ==
    buscar_para_conciliacion(factura.rfc_emisor, factura.fecha_emision,
                             factura.total, dias_rango_busqueda)

IgualesYLibres(factura) ==
    { i \in DOMAIN RecuperablesDe(factura) :
        /\ RecuperablesDe(factura)[i].total = factura.total
        /\ ~esta_facturada(RecuperablesDe(factura)[i]) }

LoteDeIguales ==
    /\ Len(facturas) >= 2
    /\ \A p \in DOMAIN facturas :
          /\ facturas[p].total = facturas[1].total
          /\ facturas[p].rfc_emisor = facturas[1].rfc_emisor
          /\ RecuperablesDe(facturas[p]) = RecuperablesDe(facturas[1])
          /\ Cardinality(IgualesYLibres(facturas[p])) = Len(facturas)

UnaDistintaCadaUna ==
    /\ \A i \in DOMAIN resultados :
          /\ resultados[i].conciliacion_exitosa
          /\ Len(resultados[i].remisiones) = 1
    /\ \A i, j \in DOMAIN resultados :
          i # j => resultados[i].remisiones # resultados[j].remisiones

\* C4 (as stated): k invoices of the same issuer and total T, the same k
\* unlinked receipts of total T retrievable for each: every invoice gets a
\* successful result with exactly one receipt, pairwise distinct.
C4_UnaDistintaCadaUna ==
    (LoteTerminado /\ LoteDeIguales) => UnaDistintaCadaUna

\* No invoice of the batch has a combination among its exact candidates: no
\* two or more eligible retrievable receipts sum exactly to its total.
SinCombinacionExacta ==
    \A p \in DOMAIN candidatas_por_factura :
        \A k \in DOMAIN candidatas_por_factura[p] : ~candidatas_por_factura[p][k].multi

\* C4 (amended): the same, provided no combination of retrievable receipts
\* sums exactly to T.
C4_UnaDistintaSinCombinacion ==
    (LoteTerminado /\ LoteDeIguales /\ SinCombinacionExacta) => UnaDistintaCadaUna

\* C4 witness: three equal invoices and three receipts of their total, no
\* combination, batch returned.
C4_Witness ==
    /\ LoteTerminado
    /\ LoteDeIguales
    /\ SinCombinacionExacta
    /\ Len(facturas) = 3
    /\ Len(resultados) = 3
    /\ UnaDistintaCadaUna

\* C5: every conciliar_lote call starts from an empty consumed set, and during
\* the call the set holds the receipts of this call's assignment only.
C5_LoteParteDeVacio ==
    /\ pc = "fase2" => remisiones_usadas = {}
    /\ pc = "fase3" => remisiones_usadas = IdsAsignadas(asignaciones)

\* C5 witness: a second batch on a matcher whose first batch consumed
\* receipts has entered and emptied the set.
C5_Witness ==
    /\ pc = "fase2"
    /\ lote = 2
    /\ usadas_al_entrar # {}
    /\ remisiones_usadas = {}

ResultadosDevueltos ==
    { resultados[i] : i \in DOMAIN resultados }
    \cup (IF calc.op = "factura" THEN { calc.resultado } ELSE {})

\* C6 (as stated): a receipt whose esta_facturada is true is never part of the
\* matched-receipt set of any result.
C6_FacturadaNuncaAsignada ==
    \A r \in ResultadosDevueltos :
        \A id \in Rango(r.remisiones) : ~esta_facturada(ledger[id])

C8_ExitosaImplicaScoreMinimo ==
    \A r \in ResultadosDevueltos :
        r.conciliacion_exitosa => r.score_matching >= SCORE_MINIMO_ACEPTABLE

\* C13: a conciliar_lote call that follows another one on the same matcher,
\* with the same invoices and the same ledger, returns the results of the
\* first call: the same receipts for every invoice, the same scores.
C13_LoteIdempotente ==
    (LoteTerminado /\ anterior.lote > 0) =>
        /\ asignaciones = anterior.asignaciones
        /\ resultados = anterior.resultados

\* C13 witness: the second call has returned; the cost matrix has several
\* optimal assignments, one invoice got a receipt from the assignment and
\* another one its result from conciliar_factura.
C13_Witness ==
    /\ LoteTerminado
    /\ lote = 2
    /\ anterior.lote = 1
    /\ resultados = anterior.resultados
    /\ facturas_con_candidatas # <<>>
    /\ Cardinality(linear_sum_assignment(facturas_con_candidatas,
                       Columnas(facturas_con_candidatas, 1, 1, {}))) > 1
    /\ \E i, j \in DOMAIN resultados :
          /\ ~PorConciliarFactura(i)
          /\ PorConciliarFactura(j)
          /\ resultados[j].remisiones # <<>>

\* The optimal step gave no assignment: there was no invoice with candidates
\* (so no column either) or the solver raised.
SinAsignacionOptima ==
    /\ pc \in {"fase3", "reposo"}
    /\ lote > 0
    /\ asignaciones = SinAsignaciones

\* C14: when _resolver_asignacion_optima has no invoice, no column, or a solver
\* that raises, it returns the empty assignment; nothing is registered, and
\* conciliar_lote calls conciliar_factura for every invoice of the batch: the
\* result of an invoice is what that call returned whenever the call was
\* successful or found a receipt.
C14_SinAsignacionTodasPorFactura ==
    SinAsignacionOptima =>
        /\ remisiones_usadas = {}
        /\ LoteTerminado => Len(resultados) = Len(facturas)
        /\ \A i \in DOMAIN resultados :
              /\ PorConciliarFactura(i)
              /\ resultados[i].uuid_factura = facturas[orden[i]].uuid
              /\ (\/ conciliar_factura(facturas[orden[i]]).conciliacion_exitosa
                  \/ conciliar_factura(facturas[orden[i]]).remision # None
                  \/ candidatas_por_factura[orden[i]] = <<>>)
                    => resultados[i] = conciliar_factura(facturas[orden[i]])

\* C14 witness: the solver raised for a batch in which both invoices had exact
\* candidates; both got the successful result of their own conciliar_factura
\* call.
C14_Witness ==
    /\ LoteTerminado
    /\ asignaciones = SinAsignaciones
    /\ Len(facturas_con_candidatas) = Len(facturas)
    /\ \A i \in DOMAIN resultados :
          /\ resultados[i].conciliacion_exitosa
          /\ resultados[i] = conciliar_factura(facturas[orden[i]])

\* The alerts by which a result records that its invoice failed: no candidate,
\* low-confidence match, amount mismatch, no assignment kept.
AlertasDeFallo ==
    { "SIN_REMISION", "MATCH_BAJO", "DIFERENCIA_MONTO", "SIN_REMISION_DISPONIBLE" }

C16_DetectaTodaRepetida ==
    calc.op = "duplicadas" =>
        ((calc.alertas # <<>>) <=>
            \E i, j \in DOMAIN calc.resultados :
                /\ i # j
                /\ Rango(calc.resultados[i].remisiones)
                      \cap Rango(calc.resultados[j].remisiones) # {})

\* The columns of the batch in progress and the answer the solver gave for
\* its matrix (<<>> when it was not called)
ColumnasDelLote == Columnas(facturas_con_candidatas, 1, 1, {})

RespuestaDelSolver ==
    LET dadas == { m \in solver :
                     m.matriz = MatrizCostos(facturas_con_candidatas, ColumnasDelLote) }
    IN IF dadas = {} THEN <<>> ELSE (CHOOSE m \in dadas : TRUE).sol

\* Row f of the solver's answer is a candidate of its invoice.
AsignacionValida(f) ==
    /\ RespuestaDelSolver[f] # 0
    /\ Costo(facturas_con_candidatas[f], ColumnasDelLote[RespuestaDelSolver[f]]).alto = 0

IdsDeFila(f) == Rango(ColumnasDelLote[RespuestaDelSolver[f]].ids)

Asignada(f) == asignaciones[facturas_con_candidatas[f]].asignada

\* An assignment of the solver was dropped for sharing a receipt with an
\* earlier one that was kept.
AsignacionDescartada(f) ==
    /\ AsignacionValida(f)
    /\ ~Asignada(f)
    /\ \E g \in 1..(f - 1) : Asignada(g) /\ IdsDeFila(f) \cap IdsDeFila(g) # {}

\* C24: the assignments give each invoice at most one column, use each column
\* for at most one invoice and have pairwise disjoint receipt sets; of solver
\* assignments that share a receipt only the first in solver order is kept,
\* and the invoice of a dropped one gets the result of the conciliar_factura
\* fallback.
C24_AsignacionesDisjuntas ==
    (pc = "fase3" /\ RespuestaDelSolver # <<>>) =>
        /\ \A p, q \in DOMAIN asignaciones :
              (p # q /\ asignaciones[p].asignada /\ asignaciones[q].asignada) =>
                  /\ RemId(asignaciones[p]) # RemId(asignaciones[q])
                  /\ Rango(asignaciones[p].ids) \cap Rango(asignaciones[q].ids) = {}
        /\ \A p \in DOMAIN asignaciones :
              asignaciones[p].asignada =>
                  \E f \in DOMAIN facturas_con_candidatas :
                      /\ facturas_con_candidatas[f] = p
                      /\ AsignacionValida(f)
                      /\ Rango(asignaciones[p].ids) = IdsDeFila(f)
        /\ \A f \in DOMAIN facturas_con_candidatas :
              Asignada(f) <=>
                  /\ AsignacionValida(f)
                  /\ \A g \in 1..(f - 1) :
                        Asignada(g) => IdsDeFila(f) \cap IdsDeFila(g) = {}
        /\ \A f \in DOMAIN facturas_con_candidatas :
              (AsignacionDescartada(f) /\ Len(resultados) >= f) =>
                  resultados[f] = ElegirFallback(facturas[facturas_con_candidatas[f]],
                                     conciliar_factura(facturas[facturas_con_candidatas[f]]))

\* C24 witness: the batch returned after the solver gave the second invoice a
\* candidate that shares a receipt with the combination kept for the first.
C24_Witness ==
    /\ pc = "fase3"
    /\ RespuestaDelSolver # <<>>
    /\ Len(resultados) = Len(orden)
    /\ \E f \in DOMAIN facturas_con_candidatas : AsignacionDescartada(f)

\* The summed total of the ledger rows whose ids are in ids.
TotalAsignado(ids) ==
    SumaTotales(Filas({ i \in DOMAIN ledger : ledger[i].id_remision \in Rango(ids) }, 1))

\* C25: every receipt set accepted by the optimal assignment step (a single
\* receipt or a combination) sums exactly to the total of its invoice, and an
\* invoice without a zero-difference candidate gets no optimal assignment: its
\* result is the one conciliar_factura returns.
C25_AsignacionOptimaExacta ==
    pc = "fase3" =>
        /\ \A p \in DOMAIN asignaciones :
              asignaciones[p].asignada =>
                  /\ asignaciones[p].ids # <<>>
                  /\ TotalAsignado(asignaciones[p].ids) = facturas[p].total
                  /\ asignaciones[p].score.diferencia_monto = 0
        /\ \A p \in DOMAIN candidatas_por_factura :
              \A k \in DOMAIN candidatas_por_factura[p] :
                  TotalAsignado(candidatas_por_factura[p][k].ids) = facturas[p].total
        /\ \A i \in DOMAIN resultados :
              candidatas_por_factura[orden[i]] = <<>> =>
                  /\ ~asignaciones[orden[i]].asignada
                  /\ resultados[i] = conciliar_factura(facturas[orden[i]])
        /\ \A i \in DOMAIN resultados :
              asignaciones[orden[i]].asignada =>
                  /\ TotalAsignado(resultados[i].remisiones) = facturas[orden[i]].total
                  /\ resultados[i].diferencia_monto = 0

\* C25 witness: a returned batch in which one invoice was assigned a
\* combination of two receipts and the other, which has a receipt one peso
\* away and none exact, went to conciliar_factura.
C25_Witness ==
    /\ pc = "fase3"
    /\ Len(resultados) = Len(orden)
    /\ \E p, q \in DOMAIN asignaciones :
          /\ asignaciones[p].asignada
          /\ asignaciones[p].multi
          /\ candidatas_por_factura[q] = <<>>
          /\ \E i \in DOMAIN resultados :
                /\ orden[i] = q
                /\ resultados[i].remision # None
                /\ resultados[i].diferencia_monto # 0

\* score_matching, in ten-thousandths, is a score between 0 and 1.
ScoreEnRango(resultado) ==
    /\ 0 <= resultado.score_matching
    /\ resultado.score_matching <= 10000

\* C26: the score_matching of every result, of conciliar_lote and of
\* conciliar_factura and whatever stage produced it, lies between 0 and 1
\* inclusive.
C26_ScoreEntreCeroYUno ==
    /\ \A i \in DOMAIN resultados : ScoreEnRango(resultados[i])
    /\ calc.op = "factura" => ScoreEnRango(calc.resultado)

\* The same for the results that do not come from the PDF stage.
ScoreEnRangoFueraDePdf ==
    /\ \A i \in DOMAIN resultados :
          resultados[i].metodo_matching # "pdf" => ScoreEnRango(resultados[i])
    /\ (calc.op = "factura" /\ calc.resultado.metodo_matching # "pdf")
          => ScoreEnRango(calc.resultado)

\* remision is set exactly when remisiones is non-empty.
RemisionSiiRemisiones(resultado) ==
    (resultado.remision # None) <=> (resultado.remisiones # <<>>)

\* C30: in every result returned by conciliar_factura or conciliar_lote the
\* primary receipt field remision is set if and only if the list remisiones
\* is non-empty.
C30_RemisionSiiRemisiones ==
    /\ \A i \in DOMAIN resultados : RemisionSiiRemisiones(resultados[i])
    /\ calc.op = "factura" => RemisionSiiRemisiones(calc.resultado)

\* The same for the results that do not come from the PDF stage.
RemisionSiiRemisionesFueraDePdf ==
    /\ \A i \in DOMAIN resultados :
          resultados[i].metodo_matching # "pdf" => RemisionSiiRemisiones(resultados[i])
    /\ (calc.op = "factura" /\ calc.resultado.metodo_matching # "pdf")
          => RemisionSiiRemisiones(calc.resultado)

-----------------------------------------------------------------------------
(* Claims on the pure functions, checked under SpecCalc *)

MismoTotalEmisorFecha ==
    /\ calc.op = "score"
    /\ calc.factura.total = calc.remision.total
    /\ calc.factura.rfc_emisor = calc.remision.rfc_proveedor
    /\ calc.factura.fecha_emision = calc.remision.fecha_remision

TodosLosConceptosCoinciden ==
    /\ calc.factura.conceptos # <<>>
    /\ calc.remision.detalles # <<>>
    /\ \A i \in DOMAIN calc.factura.conceptos :
         \E j \in DOMAIN calc.remision.detalles :
            token_sort_ratio(calc.factura.conceptos[i], calc.remision.detalles[j])
               >= umbral_similitud_texto

EsElegible(i) ==
    /\ calc.remisiones[i].total <= calc.factura.total
    /\ calc.remisiones[i].uuid_factura = ""
    /\ Cardinality({ j \in 1..i : /\ calc.remisiones[j].total <= calc.factura.total
                                  /\ calc.remisiones[j].uuid_factura = "" })
          <= LIMITE_CANDIDATAS

HayParExacto ==
    \E i, j \in DOMAIN calc.remisiones :
        /\ i < j
        /\ EsElegible(i)
        /\ EsElegible(j)
        /\ calc.remisiones[i].total + calc.remisiones[j].total = calc.factura.total

\* C10: _buscar_combinacion_remisiones returns the first exact-sum combination
\* of its enumeration order (sizes ascending from 2, pool order within a size)
\* and visits no combination after it; whenever two eligible receipts of the
\* bounded pool sum exactly to the invoice total, the result has two members
\* and diferencia_monto 0.
C10_PrimeraCombinacionExacta ==
    calc.op = "combinacion" =>
      LET enum == Enumeracion(Candidatas(calc.factura, calc.remisiones,
                                         LIMITE_CANDIDATAS), 2)
          ret  == calc.busqueda.retorno
          exactas == { i \in DOMAIN enum :
                          SumaTotales(enum[i]) = calc.factura.total }
      IN /\ HayParExacto =>
              /\ ret # NoScore
              /\ Len(ret.remisiones) = 2
              /\ ret.diferencia_monto = 0
         /\ (ret # NoScore) <=> (exactas # {})
         /\ ret # NoScore =>
              \E i \in exactas :
                 /\ \A j \in exactas : i <= j
                 /\ ret.remisiones = SeqIds(enum[i])
                 /\ ret.diferencia_monto = 0
                 /\ calc.busqueda.evaluadas = i
                 /\ \A k \in DOMAIN enum : k < i =>
                       Len(enum[k]) <= Len(enum[i])

C10_Witness ==
    /\ calc.op = "combinacion"
    /\ HayParExacto
    /\ Len(calc.busqueda.retorno.remisiones) = 2
    /\ calc.busqueda.retorno.diferencia_monto = 0
    /\ calc.busqueda.retorno.remisiones # <<1, 2>>
    /\ calc.busqueda.evaluadas
         < Len(Enumeracion(Candidatas(calc.factura, calc.remisiones,
                                      LIMITE_CANDIDATAS), 2))
    /\ \E i \in DOMAIN calc.remisiones : calc.remisiones[i].uuid_factura # ""

\* The combinations of the bounded pool of the search of calc, and those
\* whose sum is within the configured percentage tolerance of the invoice total
CombinacionesDelPool ==
    Enumeracion(Candidatas(calc.factura, calc.remisiones, LIMITE_CANDIDATAS), 2)

DentroDeTolerancia ==
    { i \in DOMAIN CombinacionesDelPool :
        100 * Abs(calc.factura.total - SumaTotales(CombinacionesDelPool[i]))
           <= tolerancia_monto_porcentaje * calc.factura.total }

NingunaSumaExacta ==
    \A i \in DOMAIN CombinacionesDelPool :
        SumaTotales(CombinacionesDelPool[i]) # calc.factura.total

\* C23 (as stated): with no exact-sum combination in the bounded pool and some
\* combination within the amount tolerance, the search returns a non-exact
\* combination: one whose line-item count equals the invoice's if there is
\* one within tolerance, otherwise one of the smallest difference; it returns
\* none only when no combination is within tolerance.
C23_DevuelveDentroDeTolerancia ==
    (calc.op = "combinacion" /\ NingunaSumaExacta /\ DentroDeTolerancia # {}) =>
        /\ calc.busqueda.retorno # NoScore
        /\ \E i \in DentroDeTolerancia :
              /\ calc.busqueda.retorno.remisiones = SeqIds(CombinacionesDelPool[i])
              /\ \/ SumaDetalles(CombinacionesDelPool[i]) = Len(calc.factura.conceptos)
                 \/ /\ \A j \in DentroDeTolerancia :
                          SumaDetalles(CombinacionesDelPool[j]) # Len(calc.factura.conceptos)
                    /\ \A j \in DentroDeTolerancia :
                          Abs(calc.factura.total - SumaTotales(CombinacionesDelPool[i]))
                             <= Abs(calc.factura.total - SumaTotales(CombinacionesDelPool[j]))

\* C23 (amended): the search returns only combinations whose sum equals the
\* invoice total; with no such combination in the bounded pool it returns
\* none, also when some combination is within the percentage tolerance.
C23_SoloCombinacionExacta ==
    calc.op = "combinacion" =>
        /\ calc.busqueda.retorno # NoScore =>
              /\ calc.busqueda.retorno.diferencia_monto = 0
              /\ SumaTotales([ k \in DOMAIN calc.busqueda.retorno.remisiones |->
                                 calc.remisiones[calc.busqueda.retorno.remisiones[k]] ])
                    = calc.factura.total
        /\ NingunaSumaExacta => calc.busqueda.retorno = NoScore

\* C23 witness: two receipts sum to 299 for an invoice of 300, none sums to
\* 300, and the search returned none.
C23_Witness ==
    /\ calc.op = "combinacion"
    /\ NingunaSumaExacta
    /\ DentroDeTolerancia # {}
    /\ calc.busqueda.retorno = NoScore

\* C12: for day gaps d1 <= d2, all other inputs equal, the date sub-score of
\* the single-receipt match at gap d1 is at least the one at gap d2 (across the
\* bands at 1, 3, 7 and 14 days and along the decaying tail), and so is the
\* total score.
C12_ScoreFechaMonotono ==
    (calc.op = "fechas" /\ Abs(calc.fecha1) <= Abs(calc.fecha2)) =>
        /\ calc.score1.dias_diferencia = Abs(calc.fecha1)
        /\ calc.score2.dias_diferencia = Abs(calc.fecha2)
        /\ ScoreFechaTreintavos(calc.score1.dias_diferencia)
              >= ScoreFechaTreintavos(calc.score2.dias_diferencia)
        /\ calc.score1.score_fecha >= calc.score2.score_fecha
        /\ calc.score1.score_total >= calc.score2.score_total

\* C12 witness: gaps of 14 and 15 days, on the two sides of the last band
\* boundary, with equal sub-scores of 0.5.
C12_Witness ==
    /\ calc.op = "fechas"
    /\ calc.fecha1 = 14
    /\ calc.fecha2 = -15
    /\ calc.score1.score_fecha = 50
    /\ calc.score2.score_fecha = 50

\* C29: the amount sub-score does not increase with the percentage
\* difference: of two receipts (or two combinations) that differ only in
\* their total, the one with the smaller difference has at least the amount
\* sub-score of the other, also across the band boundary at 10%, and so for
\* single receipts at least its total score.
C29_ScoreMontoMonotono ==
    (calc.op = "montos"
       /\ Abs(calc.factura.total - calc.total1) <= Abs(calc.factura.total - calc.total2)) =>
        /\ calc.score1.score_monto >= calc.score2.score_monto
        /\ calc.multi1.score_monto >= calc.multi2.score_monto
        /\ calc.score1.score_total >= calc.score2.score_total

\* The same within the bands up to 10% and along the tail beyond it.
ScoreMontoMonotonoPorTramo ==
    (calc.op = "montos"
       /\ Abs(calc.factura.total - calc.total1) <= Abs(calc.factura.total - calc.total2)
       /\ (10 * Abs(calc.factura.total - calc.total1) <= calc.factura.total) =
          (10 * Abs(calc.factura.total - calc.total2) <= calc.factura.total)) =>
        /\ calc.score1.score_monto >= calc.score2.score_monto
        /\ calc.multi1.score_monto >= calc.multi2.score_monto
        /\ calc.score1.score_total >= calc.score2.score_total

-----------------------------------------------------------------------------
(* Claims on the truncation of the pool, checked under SpecPoolGrande *)

\* What conciliar_factura retrieves for the invoice of calc in its first range.
PoolRecuperado ==
    Elegibles(calc.factura,
              buscar_para_conciliacion(calc.factura.rfc_emisor, calc.factura.fecha_emision,
                                       calc.factura.total, dias_rango_busqueda))

ParExactoEnPool ==
    \E i, j \in DOMAIN PoolRecuperado :
        /\ i < j
        /\ PoolRecuperado[i].total + PoolRecuperado[j].total = calc.factura.total

\* C11 (as stated): when the retrieved pool holds more eligible receipts than
\* LIMITE_CANDIDATAS and two of them sum exactly to the invoice total,
\* conciliar_factura returns an exact combination, wherever in the retrieval
\* order its members are.
C11_TruncarNoDescarta ==
    (calc.op = "factura" /\ Len(PoolRecuperado) > LIMITE_CANDIDATAS /\ ParExactoEnPool)
        => /\ calc.resultado.es_multi_remision
           /\ calc.resultado.diferencia_monto = 0
           /\ calc.resultado.conciliacion_exitosa

\* The unconsumed candidates of the first retrieval of the heuristic stage
CandidatasHeuristica(factura) ==
    SinUsadas(buscar_para_conciliacion(factura.rfc_emisor, factura.fecha_emision,
                                       factura.total, dias_rango_busqueda))

\* The first combination search of the call of calc and the search over the
\* unconsumed candidates of the 30-day range with pool bound 30
PrimeraBusqueda ==
    buscar_combinacion_remisiones(calc.factura, CandidatasHeuristica(calc.factura),
                                  LIMITE_CANDIDATAS)

BusquedaAmpliada ==
    buscar_combinacion_remisiones(calc.factura, Ampliadas(calc.factura),
                                  LIMITE_SEGUNDO_PASE)

MejorDeDos(primero, segundo) ==
    IF segundo # NoScore /\ (primero = NoScore \/ segundo.score_total > primero.score_total)
    THEN segundo
    ELSE primero

\* C22 (as stated): whenever the first combination search yields no exact
\* combination, the search is repeated with pool bound 30 over the unconsumed
\* candidates of the 30-day window and the better-scoring of the two attempts
\* is the combination the call goes on with; with an exact first combination
\* that one is kept.
C22_SegundoPaseSiempre ==
    (/\ calc.op = "factura"
     /\ calc.resultado.metodo_matching \in {"automatico", "multi_remision"}
     /\ CandidatasHeuristica(calc.factura) # <<>>) =>
        calc.resultado =
            ElegirSimple(ResultadoBase(calc.factura), calc.factura,
                CandidatasHeuristica(calc.factura)
                    [MejorMatchSimple(calc.factura, CandidatasHeuristica(calc.factura))],
                IF PrimeraBusqueda # NoScore /\ PrimeraBusqueda.diferencia_monto = 0
                THEN PrimeraBusqueda
                ELSE MejorDeDos(PrimeraBusqueda, BusquedaAmpliada))

-----------------------------------------------------------------------------
(* Claims on the stages of conciliar_factura, checked under SpecEtapas *)

RangoEtapa(etapa) ==
    IF etapa = "pdf" THEN 1 ELSE IF etapa = "directo" THEN 2 ELSE 3

EtapaDeConsulta(consulta) ==
    IF consulta = "buscar_por_orden_compra" THEN "pdf"
    ELSE IF consulta = "buscar_por_numero" THEN "directo"
    ELSE "heuristica"

MetodoDeEtapa(etapa) ==
    IF etapa = "pdf" THEN {"pdf"}
    ELSE IF etapa = "directo" THEN {"numero_directo"}
    ELSE {"automatico", "multi_remision"}

ResueltasPdf(factura) ==
    IF \/ ~factura.pdf.exito
       \/ (factura.pdf.remisiones_encontradas = <<>> /\ factura.pdf.orden_compra = "")
    THEN <<>>
    ELSE SinUsadas(EncontradasPdf(factura))

FueraDeTolerancia(factura, remisiones) ==
    100 * Abs(factura.total - SumaTotales(remisiones))
        > tolerancia_monto_porcentaje * factura.total

\* C19 (as stated): when the PDF stage resolves at least one receipt that is
\* not consumed, the call returns a result of method 'pdf' holding exactly
\* those receipts, with a DIFERENCIA_MONTO alert if and only if their sum
\* differs from the invoice total by more than the tolerance percentage.
C19_PdfAlertaFueraDeTolerancia ==
    (/\ calc.op = "conciliar"
     /\ calc.etapa = "fin"
     /\ calc.archivo_xml
     /\ ResueltasPdf(calc.factura) # <<>>) =>
        /\ calc.resultado.metodo_matching = "pdf"
        /\ calc.resultado.remisiones = SeqIds(ResueltasPdf(calc.factura))
        /\ "DIFERENCIA_MONTO" \in calc.resultado.alertas
              <=> FueraDeTolerancia(calc.factura, ResueltasPdf(calc.factura))

\* The ledger rows with the hinted number: those of the invoice's issuer if
\* there are any, else those of any issuer; and what is left of them after
\* removing the consumed receipts.
ConNumero(factura, solo_emisor) ==
    { i \in DOMAIN ledger :
        /\ ledger[i].id_remision = factura.numero_remision_indicado
        /\ (solo_emisor => ledger[i].rfc_proveedor = factura.rfc_emisor) }

RestantesConNumero(factura) ==
    { i \in (IF ConNumero(factura, TRUE) # {} THEN ConNumero(factura, TRUE)
             ELSE ConNumero(factura, FALSE)) :
        ledger[i].id_remision \notin remisiones_usadas }

EsResultadoDe(resultado, factura, i) ==
    /\ resultado.metodo_matching = "numero_directo"
    /\ resultado.remisiones = << ledger[i].id_remision >>
    /\ resultado.diferencia_monto = Abs(factura.total - ledger[i].total)

DirectoEjecutado ==
    /\ calc.op = "conciliar"
    /\ calc.etapas # <<>>
    /\ calc.etapas[Len(calc.etapas)].etapa = "directo"

\* C20: in the direct-number stage, after removing consumed receipts, a
\* single matching receipt is the result; of several the result is one of
\* the invoice's issuer; with several and none of the issuer, or none left,
\* there is no result and the heuristic stage runs.  The lookup is made with
\* the issuer filter and repeated without it only when that one is empty.
C20_NumeroDirecto ==
    DirectoEjecutado =>
        LET restantes == RestantesConNumero(calc.factura)
            del_emisor == { i \in restantes :
                              ledger[i].rfc_proveedor = calc.factura.rfc_emisor }
            hay == calc.etapas[Len(calc.etapas)].hay
            consultas == { k \in DOMAIN calc.consultas :
                             calc.consultas[k] = "buscar_por_numero" }
        IN /\ Cardinality(restantes) = 1 =>
                 hay /\ \A i \in restantes :
                           EsResultadoDe(calc.resultado, calc.factura, i)
           /\ (Cardinality(restantes) > 1 /\ del_emisor # {}) =>
                 hay /\ \E i \in del_emisor :
                           EsResultadoDe(calc.resultado, calc.factura, i)
           /\ (restantes = {} \/ (Cardinality(restantes) > 1 /\ del_emisor = {})) =>
                 ~hay /\ calc.etapa = "heuristica"
           /\ Cardinality(consultas) =
                 (IF ConNumero(calc.factura, TRUE) # {} THEN 1 ELSE 2)

\* Two unconsumed receipts carry the hinted number and the stage returned
\* one of the invoice's issuer.
C20_Witness ==
    /\ DirectoEjecutado
    /\ Cardinality(RestantesConNumero(calc.factura)) > 1
    /\ calc.etapas[Len(calc.etapas)].hay
    /\ calc.resultado.metodo_matching = "numero_directo"

\* The heuristic stage has just run on a non-empty list of candidates.
HeuristicaConCandidatas ==
    /\ calc.op = "conciliar"
    /\ calc.etapas # <<>>
    /\ calc.etapas[Len(calc.etapas)].etapa = "heuristica"
    /\ "SIN_REMISION" \notin calc.resultado.alertas

ScoreMejorSimple(factura) ==
    calcular_score(factura,
        CandidatasHeuristica(factura)[MejorMatchSimple(factura, CandidatasHeuristica(factura))])

MejorCombinacion(factura) == MejorMatchMulti(factura, CandidatasHeuristica(factura))

UsaCombinacion == calc.resultado.metodo_matching = "multi_remision"

\* C21 (as stated): with a best single match and a combination, the
\* combination is used only if its total score is higher than the single's,
\* or the scores are equal and its difference percentage is smaller.
C21_CombinacionSoloPorScore ==
    (HeuristicaConCandidatas /\ UsaCombinacion) =>
        \/ MejorCombinacion(calc.factura).score_total
              > ScoreMejorSimple(calc.factura).score_total
        \/ /\ MejorCombinacion(calc.factura).score_total
                 = ScoreMejorSimple(calc.factura).score_total
           /\ MejorCombinacion(calc.factura).diferencia_monto
                 < ScoreMejorSimple(calc.factura).diferencia_monto

\* C21 (amended): the combination search is run for every invoice that
\* reaches the heuristic stage with candidates; the combination it finds is
\* used if and only if its total score is higher than the best single's or
\* its difference percentage is smaller, whatever the scores; otherwise the
\* best single match is used.
C21_CombinacionPorScoreODiferencia ==
    HeuristicaConCandidatas =>
        /\ UsaCombinacion <=>
              /\ MejorCombinacion(calc.factura) # NoScore
              /\ \/ MejorCombinacion(calc.factura).score_total
                       > ScoreMejorSimple(calc.factura).score_total
                 \/ /\ calc.factura.total > 0
                    /\ MejorCombinacion(calc.factura).diferencia_monto
                          < ScoreMejorSimple(calc.factura).diferencia_monto
        /\ UsaCombinacion =>
              /\ calc.resultado.remisiones = MejorCombinacion(calc.factura).remisiones
              /\ calc.resultado.score_matching = MejorCombinacion(calc.factura).score_total
        /\ ~UsaCombinacion =>
              /\ Len(calc.resultado.remisiones) = 1
              /\ calc.resultado.score_matching = ScoreMejorSimple(calc.factura).score_total

\* C21 witness: a combination of lower score than the best single match, and
\* of smaller difference, is the result.
C21_Witness ==
    /\ HeuristicaConCandidatas
    /\ UsaCombinacion
    /\ MejorCombinacion(calc.factura).score_total
          < ScoreMejorSimple(calc.factura).score_total
    /\ MejorCombinacion(calc.factura).diferencia_monto
          < ScoreMejorSimple(calc.factura).diferencia_monto

-----------------------------------------------------------------------------
(* Claims on CFDIParser, checked under SpecCFDI *)

\* A well-formed CFDI document with a TimbreFiscalDigital UUID: parseable XML,
\* the mandatory elements and attributes present, amounts written as decimals.
EsImporte(atributo) == atributo.presente /\ atributo.numero

TrasladosBienFormados(hijos) ==
    \A i \in DOMAIN hijos : hijos[i].tipo = "Traslado" => EsImporte(hijos[i].importe)

BienFormadoConUUID(doc) ==
    /\ doc.sintaxis_correcta
    /\ doc.timbre.presente /\ doc.timbre.uuid.presente /\ doc.timbre.uuid.texto # ""
    /\ doc.emisor.presente /\ doc.receptor.presente
    /\ EsImporte(doc.subtotal) /\ EsImporte(doc.total)
    /\ doc.conceptos.presente
    /\ \A i \in DOMAIN doc.conceptos.hijos :
          doc.conceptos.hijos[i].tipo = "Concepto" =>
              TrasladosBienFormados(doc.conceptos.hijos[i].traslados)
    /\ doc.impuestos.presente /\ doc.impuestos.traslados_presente
    /\ TrasladosBienFormados(doc.impuestos.traslados)

ElementosConcepto(doc) ==
    { i \in DOMAIN doc.conceptos.hijos : doc.conceptos.hijos[i].tipo = "Concepto" }

RECURSIVE IvaDelDocumento(_)
IvaDelDocumento(hijos) ==
    IF hijos = <<>> THEN 0
    ELSE (IF Head(hijos).tipo = "Traslado" /\ Head(hijos).impuesto = "002"
          THEN Head(hijos).importe.valor ELSE 0)
         + IvaDelDocumento(Tail(hijos))

\* C17 (as stated): parse_string of a well-formed CFDI document with a
\* TimbreFiscalDigital UUID returns a Factura whose uuid, serie, folio, tax
\* ids, subtotal, total and transferred IVA are those of the document, with
\* one concepto per Concepto element; to_dict has 'uuid' and a 'conceptos'
\* list of the same length.
C17_ParseaDocumentoBienFormado ==
    (calc.op = "parse" /\ BienFormadoConUUID(calc.documento)) =>
        /\ calc.factura.hay
        /\ calc.factura.uuid = calc.documento.timbre.uuid.texto
        /\ calc.factura.serie = calc.documento.serie
        /\ calc.factura.folio = calc.documento.folio
        /\ calc.factura.rfc_emisor = calc.documento.emisor.rfc.texto
        /\ calc.factura.rfc_receptor = calc.documento.receptor.rfc.texto
        /\ calc.factura.subtotal = calc.documento.subtotal.valor
        /\ calc.factura.total = calc.documento.total.valor
        /\ calc.factura.iva_trasladado = IvaDelDocumento(calc.documento.impuestos.traslados)
        /\ Len(calc.factura.conceptos) = Cardinality(ElementosConcepto(calc.documento))
        /\ "uuid" \in calc.dict.claves
        /\ "conceptos" \in calc.dict.claves
        /\ Len(calc.dict.conceptos) = Len(calc.factura.conceptos)

====
